---- MODULE Spec2Model ----
(***************************************************************************)
(* Verification model of the interactive animation elements: the diffusion *)
(* schedule builders and forward sampler of the image / 2D / reverse       *)
(* compositions, the Steps inputs of their control panels, and the seeded  *)
(* permutation shuffle of the jigsaw element.                              *)
(*                                                                         *)
(* Numbers.  32-bit words are pairs <<hi, lo>> of 16-bit halves, so that   *)
(* every intermediate value stays inside signed 32-bit integers while the  *)
(* arithmetic is exactly the program's arithmetic modulo 2^32.  Real       *)
(* numbers are scaled integers: schedule values are multiples of 1/SCALE,  *)
(* time positions are fractions with an explicit denominator.              *)
(***************************************************************************)
EXTENDS Integers, Sequences, FiniteSets, TLC

(***************************************************************************)
(* 32-bit word arithmetic (Math.imul, ^, |, >>>, + modulo 2^32)            *)
(***************************************************************************)
W16 == 65536

RECURSIVE Xor(_, _, _)
Xor(a, b, n) ==
  IF n = 0 THEN 0
  ELSE (((a % 2) + (b % 2)) % 2) + 2 * Xor(a \div 2, b \div 2, n - 1)

RECURSIVE Or(_, _, _)
Or(a, b, n) ==
  IF n = 0 THEN 0
  ELSE (IF (a % 2) = 1 \/ (b % 2) = 1 THEN 1 ELSE 0) + 2 * Or(a \div 2, b \div 2, n - 1)

\* the same operations on 4-bit digits, tabulated once
XorNib == [a \in 0..15 |-> [b \in 0..15 |-> Xor(a, b, 4)]]
OrNib == [a \in 0..15 |-> [b \in 0..15 |-> Or(a, b, 4)]]

Nib16(t, a, b) ==
  t[a % 16][b % 16]
  + 16 * t[(a \div 16) % 16][(b \div 16) % 16]
  + 256 * t[(a \div 256) % 16][(b \div 256) % 16]
  + 4096 * t[a \div 4096][b \div 4096]

Xor32(a, b) == <<Nib16(XorNib, a[1], b[1]), Nib16(XorNib, a[2], b[2])>>

\* t | c for a constant c < 2^16
OrLow32(a, c) == <<a[1], Nib16(OrNib, a[2], c)>>

Add32(a, b) ==
  LET lo == a[2] + b[2]
  IN  <<(a[1] + b[1] + (lo \div W16)) % W16, lo % W16>>

\* t >>> n for 0 < n < 16; p = 2^n
Shr32(a, p) == <<a[1] \div p, (a[2] \div p) + (a[1] % p) * (W16 \div p)>>

\* Math.imul: the low 32 bits of the product, column by column over bytes
Imul32(a, b) ==
  LET a0 == a[2] % 256  a1 == a[2] \div 256  a2 == a[1] % 256  a3 == a[1] \div 256
      b0 == b[2] % 256  b1 == b[2] \div 256  b2 == b[1] % 256  b3 == b[1] \div 256
      c0 == a0 * b0
      c1 == a0 * b1 + a1 * b0 + (c0 \div 256)
      c2 == a0 * b2 + a1 * b1 + a2 * b0 + (c1 \div 256)
      c3 == a0 * b3 + a1 * b2 + a2 * b1 + a3 * b0 + (c2 \div 256)
  IN  <<(c3 % 256) * 256 + (c2 % 256), (c1 % 256) * 256 + (c0 % 256)>>

\* 0x6d2b79f5
MulberryInc == <<27947, 31221>>

\* One call of the closure returned by mulberry32: the captured seed is
\* advanced and the 32-bit output word x is returned (the caller divides it
\* by 4294967296).  s is the captured state before the call; s1, t1, t2 are
\* the successive values of the code's variables seed and t.
MulberryOut(s1, t2) == [s |-> s1, x |-> Xor32(t2, Shr32(t2, 16384))]
MulberryMix2(s1, t1) ==
  MulberryOut(s1, Xor32(t1, Add32(t1, Imul32(Xor32(t1, Shr32(t1, 128)), OrLow32(t1, 61)))))
MulberryMix1(s1) == MulberryMix2(s1, Imul32(Xor32(s1, Shr32(s1, 32768)), OrLow32(s1, 1)))
mulberry32(s) == MulberryMix1(Add32(s, MulberryInc))

\* Math.floor((x / 4294967296) * m) for a 32-bit word x and a small m
FloorScale(x, m) == (x[1] * m + ((x[2] * m) \div W16)) \div W16

(***************************************************************************)
(* Jigsaw element: identity and seededShuffle                              *)
(***************************************************************************)
\* Array.from({length: n*n}, (_, i) => i); index i of the code is i+1 here
identity(n) == [i \in 1..(n * n) |-> i - 1]

\* [arr[i], arr[j]] = [arr[j], arr[i]]
SwapOverwrite(arr, i, j) == [arr EXCEPT ![i + 1] = arr[j + 1]]
Swap(arr, i, j) == [arr EXCEPT ![i + 1] = arr[j + 1], ![j + 1] = arr[i + 1]]

IsIdentity(arr) == \A i \in 1..Len(arr) : arr[i] = i - 1

\* the Fisher-Yates loop, i from arr.length-1 down to 1; js records each
\* iteration's i, j and generator output word x
RECURSIVE ShuffleLoop(_, _, _, _)
ShuffleSwap(arr, g, i, j, js) ==
  ShuffleLoop(Swap(arr, i, j), g.s, i - 1, Append(js, <<i, j, g.x>>))
ShuffleDraw(arr, g, i, js) == ShuffleSwap(arr, g, i, FloorScale(g.x, i + 1), js)
ShuffleLoop(arr, s, i, js) ==
  IF i <= 0 THEN [arr |-> arr, s |-> s, js |-> js]
  ELSE ShuffleDraw(arr, mulberry32(s), i, js)

\* if (arr.every((v, i) => v === i) && arr.length > 1) swap the first two
ShuffleFixSkipped(r) == r
ShuffleFix(r) ==
  [arr |-> IF IsIdentity(r.arr) /\ Len(r.arr) > 1 THEN Swap(r.arr, 0, 1) ELSE r.arr,
   s |-> r.s, js |-> r.js]

\* mulberry32(seed) returns a new closure whose captured variable is its own
\* parameter seed; live, the captured state of the closure made by the
\* previous call, is out of its reach.
mulberry32Shared(seed, live) == live
mulberry32New(seed, live) == seed

\* seededShuffle(n, seed), run on the generator whose captured state is s
ShuffleRun(n, s) == ShuffleFix(ShuffleLoop(identity(n), s, n * n - 1, <<>>))

seededShuffle(n, seed) == ShuffleRun(n, seed).arr

(***************************************************************************)
(* Real arithmetic on scaled integers: v stands for v / SCALE, products   *)
(* and quotients are rounded to the nearest multiple of 1 / SCALE          *)
(***************************************************************************)
SCALE == 10000
HalfPi == 15708  \* Math.PI / 2

Max(a, b) == IF a >= b THEN a ELSE b
Min(a, b) == IF a <= b THEN a ELSE b
\* Math.max(lo, Math.min(hi, v))
Clamp(v, lo, hi) == Max(lo, Min(hi, v))

\* a / b to the nearest integer, b > 0
RoundDiv(a, b) == (2 * a + b) \div (2 * b)
MulS(a, b) == RoundDiv(a * b, SCALE)
DivS(a, b) == RoundDiv(a * SCALE, b)

\* Math.cos on [0, pi/2]: the series 1 - x^2/2! + x^4/4! - ... - x^10/10!,
\* as 1 - x^2/2 (1 - x^2/12 (1 - x^2/30 (1 - x^2/56 (1 - x^2/90))))
CosX2(x2) ==
  SCALE - RoundDiv(MulS(x2,
    SCALE - RoundDiv(MulS(x2,
      SCALE - RoundDiv(MulS(x2,
        SCALE - RoundDiv(MulS(x2, SCALE - RoundDiv(x2, 90)), 56)), 30)), 12)), 2)
Cos(x) == CosX2(MulS(x, x))

\* Math.exp on [-4, 4]: the series of exp(y / 8) up to y^5/5!, squared three
\* times (the last square, of a value up to e^4, drops one digit of one factor)
ExpSmall(y) ==
  SCALE + MulS(y,
    SCALE + RoundDiv(MulS(y,
      SCALE + RoundDiv(MulS(y,
        SCALE + RoundDiv(MulS(y, SCALE + RoundDiv(y, 5)), 4)), 3)), 2))
Square(e) == MulS(e, e)
SquareWide(e) == RoundDiv(RoundDiv(e, 10) * e, SCALE \div 10)
Exp(z) == SquareWide(Square(Square(ExpSmall(RoundDiv(z, 8)))))

\* Math.sqrt of an integer radicand: the largest r with r * r <= v
RECURSIVE SqrtBits(_, _, _)
SqrtBits(v, r, b) ==
  IF b = 0 THEN r
  ELSE SqrtBits(v, IF r + b <= 46340 /\ (r + b) * (r + b) <= v THEN r + b ELSE r, b \div 2)
ISqrt(v) == SqrtBits(v, 0, 32768)
\* Math.sqrt of a scaled value up to 50
SqrtS(x) == IF x <= 200000 THEN ISqrt(x * SCALE) ELSE ISqrt(x * (SCALE \div 100)) * 10

RECURSIVE BitLen(_)
BitLen(v) == IF v = 0 THEN 0 ELSE 1 + BitLen(v \div 2)
RECURSIVE Pow2(_)
Pow2(n) == IF n <= 0 THEN 1 ELSE 2 * Pow2(n - 1)

\* a non-zero 32-bit word x as m * 2^(e-15), m its leading 15 bits
Top15Hi(x, e) ==
  <<IF e - 15 <= 16 THEN x[1] * Pow2(31 - e) + (x[2] \div Pow2(e - 15)) ELSE x[1] \div 2, e>>
Top15Lo(lo, e) == <<IF e >= 15 THEN lo \div Pow2(e - 15) ELSE lo * Pow2(15 - e), e>>
Top15(x) == IF x[1] > 0 THEN Top15Hi(x, 16 + BitLen(x[1])) ELSE Top15Lo(x[2], BitLen(x[2]))

\* Math.log of y = m / 2^14 in [1, 2): 2 (w + w^3/3 + w^5/5 + w^7/7), w = (y-1)/(y+1)
LN2 == 6931
LnW(w) ==
  2 * (w + MulS(w, MulS(MulS(w, w),
                        RoundDiv(SCALE, 3)
                        + MulS(MulS(w, w), RoundDiv(SCALE, 5) + RoundDiv(MulS(w, w), 7)))))
\* Math.log(x / 4294967296) for a non-zero word x
LnTop(me) == LnW(RoundDiv((me[1] - 16384) * SCALE, me[1] + 16384)) + (me[2] - 33) * LN2
LnUnit(x) == LnTop(Top15(x))

\* Math.cos(2 * Math.PI * (x / 4294967296)), by quadrant, on the leading 16 bits
CosQuadrant(q, a) ==
  IF q = 0 THEN Cos(a)
  ELSE IF q = 1 THEN -Cos(HalfPi - a)
  ELSE IF q = 2 THEN -Cos(a)
  ELSE Cos(HalfPi - a)
CosTurn(x) == CosQuadrant(x[1] \div 16384, RoundDiv((x[1] % 16384) * HalfPi, 16384))

(***************************************************************************)
(* Schedule builders: the sequence alpha-bar_0 .. alpha-bar_{T-1}          *)
(***************************************************************************)
BETA_CLAMP == 9990  \* 0.999
BETA_MIN == 1       \* betaStart = betaMin = 1e-4
BETA_END_LINEAR == 2000
BETA_MAX_QUADRATIC == 3500
BETA_MAX_SIGMOID == 3000
SIGMOID_K == 8
COSINE_S == 80      \* s = 0.008

\* i / Math.max(1, T - 1)
Ratio(i, T) == RoundDiv(i * SCALE, Max(1, T - 1))

BetaLinear(i, T) ==
  Min(BETA_CLAMP, BETA_MIN + MulS(Ratio(i, T), BETA_END_LINEAR - BETA_MIN))

BetaQuadratic(i, T) ==
  Min(BETA_CLAMP, BETA_MIN + MulS(MulS(Ratio(i, T), Ratio(i, T)), BETA_MAX_QUADRATIC - BETA_MIN))

\* sig = 1 / (1 + Math.exp(-(x - 0.5) * k))
Sigmoid(x) == DivS(SCALE, SCALE + Exp(-(x - (SCALE \div 2)) * SIGMOID_K))
BetaSigmoid(i, T) ==
  Min(BETA_CLAMP, BETA_MIN + MulS(Sigmoid(Ratio(i, T)), BETA_MAX_SIGMOID - BETA_MIN))

Beta(shape, i, T) ==
  IF shape = "quadratic" THEN BetaQuadratic(i, T)
  ELSE IF shape = "sigmoid" THEN BetaSigmoid(i, T)
  ELSE BetaLinear(i, T)

\* for (const b of betas) { acc *= 1 - b; out.push(acc); }
AccStepRaw(acc, b) == MulS(acc, b)
AccStep(acc, b) == MulS(acc, SCALE - b)

RECURSIVE CumProd(_, _, _, _, _)
CumProdPush(shape, T, i, acc, out) == CumProd(shape, T, i + 1, acc, Append(out, acc))
CumProd(shape, T, i, acc, out) ==
  IF i >= T THEN out
  ELSE CumProdPush(shape, T, i, AccStep(acc, Beta(shape, i, T)), out)

makeAlphaBarLinear(T) == CumProd("linear", T, 0, SCALE, <<>>)
makeAlphaBarQuadratic(T) == CumProd("quadratic", T, 0, SCALE, <<>>)
makeAlphaBarSigmoid(T) == CumProd("sigmoid", T, 0, SCALE, <<>>)

\* f(t) = Math.pow(Math.cos(((t / T + s) / (1 + s)) * (Math.PI / 2)), 2)
CosineF(t, T) ==
  Square(Cos(MulS(DivS(RoundDiv(t * SCALE, T) + COSINE_S, SCALE + COSINE_S), HalfPi)))
makeAlphaBarCosine(T) == [i \in 1..T |-> DivS(CosineF(i - 1, T), CosineF(0, T))]

(***************************************************************************)
(* Standard-normal draws (randn) from a mulberry32 generator                *)
(***************************************************************************)
\* while (u === 0) u = rng();  -- g is the generator after its latest call
RECURSIVE DrawNonZero(_)
DrawNonZero(g) == IF g.x = <<0, 0>> THEN DrawNonZero(mulberry32(g.s)) ELSE g

\* m * Math.cos(2 * Math.PI * v) with m = Math.sqrt(-2 * Math.log(u))
BoxMuller(u, v) == MulS(SqrtS(-2 * LnUnit(u)), CosTurn(v))
RandnV(gu, gv) == [s |-> gv.s, val |-> BoxMuller(gu.x, gv.x)]
RandnU(gu) == RandnV(gu, DrawNonZero(mulberry32(gu.s)))
\* randn(rng) on the generator whose captured state is s
randn(s) == RandnU(DrawNonZero(mulberry32(s)))

\* for (let i = 0; i < e.length; i++) e[i] = randn(rng)
RECURSIVE FillNoise(_, _, _)
FillNoisePush(len, r, out) == FillNoise(len, r.s, Append(out, r.val))
FillNoise(len, s, out) ==
  IF Len(out) >= len THEN [s |-> s, e |-> out] ELSE FillNoisePush(len, randn(s), out)

(***************************************************************************)
(* Compositions: timing, schedule lookup and the forward sample            *)
(* ImageForwardComposition, DDPMForwardComposition, DDPMReverseComposition *)
(***************************************************************************)
NaN == -999999
\* 0xdecafbad
NoiseSeed == <<57034, 64429>>

\* arr[i] of a JavaScript array: undefined outside 0..length-1, and
\* arithmetic on undefined gives NaN
At(arr, i) == IF i >= 0 /\ i < Len(arr) THEN arr[i + 1] ELSE NaN

BuildScheduleCosineDefault(view, scheduler, steps) ==
  IF view # "image" \/ scheduler = "linear" THEN makeAlphaBarLinear(Max(2, steps))
  ELSE IF scheduler = "quadratic" THEN makeAlphaBarQuadratic(Max(2, steps))
  ELSE IF scheduler = "sigmoid" THEN makeAlphaBarSigmoid(Max(2, steps))
  ELSE makeAlphaBarCosine(Max(2, steps))

\* the selected schedule: ALL_SCHEDULERS.find(...) with the linear fallback
\* (image view); makeAlphaBar (2D forward and reverse views)
BuildSchedule(view, scheduler, steps) ==
  IF view # "image" THEN makeAlphaBarLinear(Max(2, steps))
  ELSE IF scheduler = "cosine" THEN makeAlphaBarCosine(Max(2, steps))
  ELSE IF scheduler = "quadratic" THEN makeAlphaBarQuadratic(Max(2, steps))
  ELSE IF scheduler = "sigmoid" THEN makeAlphaBarSigmoid(Max(2, steps))
  ELSE makeAlphaBarLinear(Max(2, steps))

\* activeFrames = Math.max(1, steps * framesPerStep)
ActiveFrames(steps, fps) == Max(1, steps * fps)
\* Math.max(1, steps - 1), the upper end of interpolate's output range
StepSpan(steps) == Max(1, steps - 1)
\* the denominator of every time position: activeFrames - 1, or 1
TimeDen(steps, fps) == Max(1, ActiveFrames(steps, fps) - 1)

\* numerator of progress: Math.min(frame, activeFrames - 1), 0 if activeFrames <= 1
ProgressNum(frame, A) == IF A > 1 THEN Min(frame, A - 1) ELSE 0
\* local = firstHalf ? progress * 2 : (1 - progress) * 2, over the denominator D
LocalNumSkewed(pN, D) == IF 2 * pN <= D THEN 2 * pN ELSE 2 * (D - pN) + 1
LocalNum(pN, D) == IF 2 * pN <= D THEN 2 * pN ELSE 2 * (D - pN)

\* interpolate(input, [0, inMax], [0, outMax], clamp on both sides), as a
\* numerator over inMax
Interpolate(inputN, inMax, outMax) == Clamp(inputN, 0, inMax) * outMax

ImageTNum(steps, fps, frame) ==
  Interpolate(LocalNum(ProgressNum(frame, ActiveFrames(steps, fps)), TimeDen(steps, fps)),
              TimeDen(steps, fps), StepSpan(steps))
ForwardTNum(steps, fps, frame) ==
  Interpolate(Min(frame, ActiveFrames(steps, fps) - 1), TimeDen(steps, fps), StepSpan(steps))
\* tPosRev = (steps - 1) - tPosFwd
ReverseTNum(steps, fps, frame) ==
  (steps - 1) * TimeDen(steps, fps) - ForwardTNum(steps, fps, frame)

TNum(view, steps, fps, frame) ==
  IF view = "image" THEN ImageTNum(steps, fps, frame)
  ELSE IF view = "forward" THEN ForwardTNum(steps, fps, frame)
  ELSE ReverseTNum(steps, fps, frame)

\* k = Math.max(0, Math.min(steps - 2, Math.floor(tPos)))
ScheduleIndexUnfloored(steps, tN, D) == Min(steps - 2, tN \div D)
ScheduleIndex(steps, tN, D) == Max(0, Min(steps - 2, tN \div D))
\* frac = Math.max(0, Math.min(1, tPos - k)), as a numerator over D
FracNum(tN, D, k) == Clamp(tN - k * D, 0, D)
\* ab = alphaBar[k] + (alphaBar[k + 1] - alphaBar[k]) * frac, as a numerator over D
LerpNumEnds(a0, a1, fN, D) ==
  IF a0 = NaN \/ a1 = NaN THEN NaN ELSE IF 2 * fN < D THEN a0 * D ELSE a1 * D
LerpNum(a0, a1, fN, D) == IF a0 = NaN \/ a1 = NaN THEN NaN ELSE a0 * D + (a1 - a0) * fN

\* s1 = Math.sqrt(Math.max(1e-8, ab)), s2 = Math.sqrt(Math.max(0, 1 - ab));
\* ab in units of 1 / SCALE, the radicands in units of 1 / SCALE^2
S1Coarse(ab) == ISqrt(Max(SCALE, ab * SCALE))
S1(ab) == ISqrt(Max(1, ab * SCALE))
S2(ab) == ISqrt(Max(0, (SCALE - ab) * SCALE))

\* one colour byte of the right canvas: x0 = byte / 255,
\* Math.max(0, Math.min(255, Math.round((s1 * x0 + s2 * eps) * 255)))
PixelOut(s1, s2, byte, eps) == Clamp(RoundDiv(s1 * byte + MulS(s2, eps) * 255, SCALE), 0, 255)
PixelsOut(s1, s2, basePx, noise) ==
  [i \in 1..Len(basePx) |-> PixelOut(s1, s2, basePx[i], noise[i])]
\* the pixel loop runs only when basePx and noise are there
DrawCanvas(abN, D, basePx, noise) ==
  IF basePx = <<>> \/ abN = NaN THEN <<>>
  ELSE PixelsOut(S1(RoundDiv(abN, D)), S2(RoundDiv(abN, D)), basePx, noise)

\* what one render computes from the props, the frame and the memoised values
RenderAb(tN, D, k, fN, alphaBar, basePx, noise) ==
  [tNum |-> tN, tDen |-> D, k |-> k, fracNum |-> fN,
   abNum |-> LerpNum(At(alphaBar, k), At(alphaBar, k + 1), fN, D),
   canvas |-> DrawCanvas(LerpNum(At(alphaBar, k), At(alphaBar, k + 1), fN, D), D, basePx, noise)]
RenderK(tN, D, k, alphaBar, basePx, noise) ==
  RenderAb(tN, D, k, FracNum(tN, D, k), alphaBar, basePx, noise)
RenderT(steps, tN, D, alphaBar, basePx, noise) ==
  RenderK(tN, D, ScheduleIndex(steps, tN, D), alphaBar, basePx, noise)
Render(view, steps, fps, frame, alphaBar, basePx, noise) ==
  RenderT(steps, TNum(view, steps, fps, frame), TimeDen(steps, fps), alphaBar, basePx, noise)

(***************************************************************************)
(* The noise buffers of the three compositions                             *)
(***************************************************************************)
GOLDEN == <<40503, 31161>>      \* 0x9e3779b9
\* epsSeed = 0x9e3779b9 ^ 123456 (2D forward view)
EpsSeedForward == Xor32(GOLDEN, <<1, 57920>>)
\* baseSeed of the reverse view in 1D with the default dist2d, and its epsSeed
BaseSeedReverse(n, stepsProp, dist1d) ==
  <<0, 8081 + n * 7 + stepsProp * 4 + (IF dist1d = "spiky" THEN 100 ELSE 0)>>
EpsSeedReverse(n, stepsProp, dist1d) == Xor32(BaseSeedReverse(n, stepsProp, dist1d), GOLDEN)

\* ex[i] = gaussMeanX + stdX * randn(epsRng); ey[i] = gaussMeanY + stdY * randn(epsRng)
\* on the draws in the order they are made: ex[0], ey[0], ex[1], ey[1], ...
ScaleDraws(raw, meanX, stdX, meanY, stdY) ==
  [i \in 1..Len(raw) |->
     IF i % 2 = 1 THEN meanX + MulS(stdX, raw[i]) ELSE meanY + MulS(stdY, raw[i])]
EpsForwardFrom(r, inp) ==
  [s |-> r.s, e |-> ScaleDraws(r.e, inp.meanX, SqrtS(Max(0, inp.varX)), 0, SqrtS(SCALE))]
\* the eps memo of the 2D forward view, drawing from the generator in state s
EpsForward(s, inp) == EpsForwardFrom(FillNoise(2 * inp.n, s, <<>>), inp)
\* the eps memo of the reverse view (1D), drawing from the generator in state s
EpsReverse(s, inp) == FillNoise(inp.n, s, <<>>)
\* the noise memo of the image view: const rng = mulberry32(0xdecafbad) inside it
NoiseImage(inp) == FillNoise(inp.n, NoiseSeed, <<>>)

(***************************************************************************)
(* The registry of schedule builders                                       *)
(***************************************************************************)
\* the builder of the ALL_SCHEDULERS entry whose id is given, applied to T
AllSchedulers(id, T) ==
  IF id = "cosine" THEN makeAlphaBarCosine(T)
  ELSE IF id = "quadratic" THEN makeAlphaBarQuadratic(T)
  ELSE IF id = "sigmoid" THEN makeAlphaBarSigmoid(T)
  ELSE makeAlphaBarLinear(T)

(***************************************************************************)
(* The forward sample on one component                                     *)
(***************************************************************************)
\* s1 * x0 + s2 * eps; x0 and eps in hundredths, s1 and s2 in units of
\* 1 / SCALE, the result in units of 1 / (100 * SCALE)
CENT == 100
ForwardSample(s1, s2, x0, eps) == s1 * x0 + s2 * eps
\* the sample as the views compute it from ab
SampleAt(ab, x0, eps) == ForwardSample(S1(ab), S2(ab), x0, eps)
Abs(v) == IF v < 0 THEN -v ELSE v

(***************************************************************************)
(* The Steps inputs of the three elements                                  *)
(***************************************************************************)
Digits == {"2", "5"}
DigitValue(c) == IF c = "2" THEN 2 ELSE 5
IsDigits(t) == \A i \in 1..Len(t) : t[i] \in Digits
RECURSIVE Pow10(_)
Pow10(n) == IF n <= 0 THEN 1 ELSE 10 * Pow10(n - 1)
RECURSIVE DigitsValue(_)
DigitsValue(t) ==
  IF t = <<>> THEN 0 ELSE 10 * DigitsValue(SubSeq(t, 1, Len(t) - 1)) + DigitValue(t[Len(t)])

\* a parsed number: nan, or v in units of 1 / unit
NotANumber == [nan |-> TRUE, v |-> 0]
Parsed(v) == [nan |-> FALSE, v |-> v]
Dots(t) == {i \in 1..Len(t) : t[i] = "."}
\* digits, digits "." digits?, or "." digits
DecimalSplit(whole, frac, unit) ==
  IF IsDigits(whole) /\ IsDigits(frac) /\ Len(whole) + Len(frac) > 0
  THEN Parsed(DigitsValue(whole) * unit + (DigitsValue(frac) * unit) \div Pow10(Len(frac)))
  ELSE NotANumber
DecimalAt(t, d, unit) == DecimalSplit(SubSeq(t, 1, d - 1), SubSeq(t, d + 1, Len(t)), unit)
UnsignedDecimal(t, unit) ==
  IF Dots(t) = {} THEN (IF t # <<>> /\ IsDigits(t) THEN Parsed(DigitsValue(t) * unit) ELSE NotANumber)
  ELSE IF Cardinality(Dots(t)) = 1 THEN DecimalAt(t, CHOOSE d \in Dots(t) : TRUE, unit)
  ELSE NotANumber
\* Number(text): 0 for the empty string, NaN for text that is no numeric literal
Number(t, unit) ==
  IF t = <<>> THEN Parsed(0)
  ELSE IF Head(t) = "-" THEN [UnsignedDecimal(Tail(t), unit) EXCEPT !.v = -@]
  ELSE UnsignedDecimal(t, unit)
\* r || fallback: NaN and 0 are falsy
OrElse(r, fallback) == IF r.nan \/ r.v = 0 THEN fallback ELSE r.v

\* the range and the initial value of each element's Steps input
StepsMin(el) == IF el = "reverse" THEN 20 ELSE 30
StepsMax(el) == IF el = "image" THEN 400 ELSE 300
StepsDefault(el) == IF el = "image" THEN 140 ELSE 120
\* Math.max(lo, Math.min(hi, Number(e.target.value) || lo)), in units of 1 / unit
onChangeSteps(el, t, unit) ==
  Max(StepsMin(el) * unit, Min(StepsMax(el) * unit, OrElse(Number(t, unit), StepsMin(el) * unit)))

(***************************************************************************)
(* Bounds and input sets                                                   *)
(***************************************************************************)
MaxGrid == 3
MaxBetween == 2

\* 0, 1, 42, 43, 80 and 249379 (whose raw shuffles of 2x2 and 3x3 are the
\* identity), 999999999 (the largest initial shuffleSeed), 2^32-1
Seeds ==
  {<<0, 0>>, <<0, 1>>, <<0, 42>>, <<0, 43>>, <<0, 80>>, <<3, 52771>>,
   <<15258, 51711>>, <<65535, 65535>>}

MaxSteps == 5
MaxTail == 2
\* the schedule lengths the builders are called with directly
MaxT == 40
\* the longest text of a change event of a Steps input
MaxText == 4
\* the number of times a noise buffer is regenerated after the mount
MaxRegens == 3

\* framesPerStep: 6 is the default and what every element passes
FramesPerStepSet == {1, 2, 3, 6}
Shapes == {"linear", "cosine", "quadratic", "sigmoid"}
\* the scheduler prop: the four shapes and a value outside them
SchedulerValues == Shapes \cup {"other"}
\* one-pixel images, as the three colour bytes getImageData returns
Images == {<<0, 128, 255>>, <<200, 30, 90>>}
Views == {"image", "forward", "reverse"}

\* every schedule of 2..MaxT entries, built once
BuilderTable == [T \in 2..MaxT |-> [id \in Shapes |-> AllSchedulers(id, T)]]

\* the characters of the text of a change event, and the texts
Chars == Digits \cup {".", "-", "x"}
RECURSIVE TextsOfLen(_)
TextsOfLen(n) ==
  IF n = 0 THEN {<<>>} ELSE {Append(t, c) : t \in TextsOfLen(n - 1), c \in Chars}
Texts == UNION {TextsOfLen(n) : n \in 0..MaxText}
\* stored step counts are kept in units of 1 / UNIT
UNIT == Pow10(MaxText - 1)

\* forward sample: ab (units of 1 / SCALE), x0 and eps (hundredths) per view
SampleAbs == {0, 1, SCALE \div 2, SCALE - 1, SCALE}
PixelValues == {0, 50, 100}
CoordValues == {-500, -235, -100, 0, 100, 235, 500}
EpsValues == {-300, -100, 0, 100, 300}

\* noise inputs per view
ForwardInputs == [n : {1, 2}, meanX : {0, SCALE}, varX : {SCALE, 4 * SCALE}]
ReverseInputs == [n : {1, 2}, dist1d : {"uniform", "spiky", "sketch"}]
ImageInputs == [n : {1, 2, 3}]
ReverseSteps == 120

\* ShuffleRun, tabulated once for the generator states that are seeds
ShuffleTable == [n \in 1..MaxGrid |-> [s \in Seeds |-> ShuffleRun(n, s)]]
ShuffleOn(n, s) == IF s \in Seeds THEN ShuffleTable[n][s] ELSE ShuffleRun(n, s)

\* the jigsaw element: seeds Math.random() may have drawn at the mount (one
\* below a seed whose Fisher-Yates pass leaves a 2 x 2 and a 3 x 3 board
\* solved), Shuffle requests and player frames followed
JigsawSeeds == {<<0, 79>>, <<0, 41>>}
InitialGrid == 3
MaxBumps == 3
MaxPlayFrame == 2

\* the standard-normal samplers: values a uniform generator returns (as
\* numerators over 2^32) and the streams of draws followed, each ending in
\* non-zero draws so that the redraw loops end
UniformDraws == {<<0, 0>>, <<0, 1>>, <<49152, 0>>}
MaxDraws == 4
DrawStreams ==
  {ds \in [1..MaxDraws -> UniformDraws] :
     ds[MaxDraws - 1] # <<0, 0>> /\ ds[MaxDraws] # <<0, 0>>}
ShapeInputs == {sh \in [h : 0..2, w : 1..2, c : 1..2] :
                  2 * Max(1, sh.h) * Max(1, sh.w) * Max(1, sh.c) <= MaxDraws}

\* the density estimators: sample values, sample sequences and grids followed
MaxSamples == 3
SampleValues == {-5000, 0, 10000}
RECURSIVE SamplesOfLen(_)
SamplesOfLen(n) ==
  IF n = 0 THEN {<<>>}
  ELSE {Append(q, x) : q \in SamplesOfLen(n - 1), x \in SampleValues}
SampleSeqs == UNION {SamplesOfLen(n) : n \in 0..MaxSamples}
Grids == {<<>>, <<0>>, <<-10000, 5000>>}

\* the data-simulation element: experiments, bin counts and batch sizes
\* followed, and the number of Generate requests
Experiments == {"coin", "gaussian"}
InitialBins == 30
BinsValues == {InitialBins, 5}
MaxBatch == 2
\* the batch input: empty or 0 (which `|| 1` turns into 1) and the largest batch
BatchValues == {0, MaxBatch}
MaxGenerates == 2
MaxDsFrame == 1
DsFps == 60
XMIN == -50000
XMAX == 50000
\* values of mu + sigma * boxMuller(): below the range, inside it and at its
\* upper end
GaussianSamples == {-70000, 0, XMAX}
NoGenerate == [op |-> "none"]
DsAnimDuration == 36
\* the players' timing: the two elements with a tween, the jigsaw's fps and
\* animDuration, and the durationInFrames both players get
TweenElements == {"dataSim", "jigsaw"}
JgFps == 60
JgAnimDuration == 48
DurationInFrames == 3600

\* the cumulative noise mode: the distributions, base points and control
\* values followed, and the longest history
NoiseDists == {"ring", "spiral"}
MaxPoints == 2
NoiseBases ==
  {<<[x |-> 0, y |-> 0]>>, <<[x |-> 10000, y |-> -20000], [x |-> -5000, y |-> 0]>>}
GaussControls ==
  {[gaussMeanX |-> 0, gaussMeanY |-> 0, gaussVarX |-> SCALE, gaussVarY |-> SCALE],
   [gaussMeanX |-> 20000, gaussMeanY |-> -10000, gaussVarX |-> 1, gaussVarY |-> 40000]}
MaxNoiseSteps == 2
STEP_STRIDE == 101003
SHIFT_FRAC == 3000
NOISE_FRAC == 3500

\* the image-noise element: texts typed into the H, W and C inputs and the
\* pairs (u, v) that Math.random() returns to a Sample (one pair per request)
DimTexts == {<<>>, <<"x">>, <<"-", "2">>, <<"2">>, <<"2", ".", "5">>}
ChannelTexts == DimTexts \cup {<<"5">>}
UniformPairs == {<<<<0, 0>>, <<0, 1>>>>, <<<<49152, 0>>, <<0, 1>>>>}
\* dimensions are kept in units of 1 / DimUnit
DimUnit == Pow10(1)

\* the image-noise composition: data arrays (distinct non-zero values),
\* dimensions and channel counts given to it
MaxData == 8
DataArrays == {[i \in 1..n |-> 100 + i] : n \in 0..MaxData}
DimProps == {DimUnit, 2 * DimUnit, 25 * (DimUnit \div 10), 3 * DimUnit}
ChannelProps == {0, DimUnit, 2 * DimUnit, 25 * (DimUnit \div 10), 4 * DimUnit}
CompositionModes == {"empty", "sample", "reshape", "visualize"}

NoCall == [n |-> 0, seed |-> <<0, 0>>, arr |-> <<>>]

(***************************************************************************)
(* State                                                                   *)
(***************************************************************************)
VARIABLES
  shN,        \* seededShuffle: argument n of the latest call (0: none yet)
  shSeed,     \* seededShuffle: argument seed of the latest call
  shArr,      \* seededShuffle: the permutation the latest call returned
  shJs,       \* seededShuffle: the <<i, j, x>> of each loop iteration of that call
  rndState,   \* captured seed of the generator closure made by the latest call
  shMemo,     \* history: one earlier call, with its arguments and its result
  shBetween   \* history: number of calls made since shMemo was taken

shVars == <<shN, shSeed, shArr, shJs, rndState, shMemo, shBetween>>

VARIABLES
  view,           \* which composition is mounted ("none" outside the composition runs)
  steps,          \* prop steps
  framesPerStep,  \* prop framesPerStep
  scheduler,      \* prop scheduler (image view)
  frame,          \* useCurrentFrame()
  alphaBar,       \* useMemo: the selected schedule
  basePx,         \* useState: colour bytes of the loaded image, <<>> before it loads
  noise,          \* useMemo: the fixed noise buffer, <<>> before the image loads
  rendered        \* what the latest render computed: tPos, k, frac, ab, canvas

compVars ==
  <<view, steps, framesPerStep, scheduler, frame, alphaBar, basePx, noise, rendered>>

VARIABLES
  schT,       \* builder call: the argument T (0: no call yet)
  schId,      \* builder call: the id of the builder
  schOut      \* builder call: the array returned

schVars == <<schT, schId, schOut>>

VARIABLES
  elView,     \* which element's Steps input ("none" outside the input runs)
  elText,     \* e.target.value of the latest change event
  elSteps     \* useState steps, in units of 1 / UNIT

elVars == <<elView, elText, elSteps>>

VARIABLES
  smView,     \* which view computes the sample ("none": no sample yet)
  smAb,       \* ab
  smX0,       \* x0[i]
  smEps,      \* eps[i]
  smOut       \* s1 * x0[i] + s2 * eps[i]

smVars == <<smView, smAb, smX0, smEps, smOut>>

VARIABLES
  nzView,     \* which composition owns the buffer ("none" outside the noise runs)
  nzInputs,   \* the controls the buffer is keyed on
  epsRng,     \* captured state of the memoised generator (2D forward, reverse)
  eps,        \* the noise buffer of the latest regeneration
  nzFirst,    \* history: for each value of the inputs, the buffer first generated for it
  nzRegens    \* history: regenerations since the mount

nzVars == <<nzView, nzInputs, epsRng, eps, nzFirst, nzRegens>>

VARIABLES
  grid,            \* useState grid (0 outside the jigsaw runs)
  perm,            \* useState perm
  permFrom,        \* useState permFrom
  permTo,          \* useState permTo
  animStartFrame,  \* useState animStartFrame
  isAnimating,     \* useState isAnimating
  lastAction,      \* useState lastAction
  shuffleSeed,     \* useState shuffleSeed
  pauseTimerRef,   \* pauseTimerRef.current: a timer id, 0 for null
  timers,          \* ids of the timeouts set and neither fired nor cleared
  playing,         \* the player: TRUE while it plays
  playerFrame,     \* the player: getCurrentFrame()
  jgOp,            \* history: the latest handler run, and isAnimating when it began
  jgBumps          \* history: number of Shuffle requests so far

jgVars ==
  <<grid, perm, permFrom, permTo, animStartFrame, isAnimating, lastAction,
    shuffleSeed, pauseTimerRef, timers, playing, playerFrame, jgOp, jgBumps>>

VARIABLES
  snKind,     \* which sampler ran last ("none": no call yet)
  snDraws,    \* the uniform draws its generator hands out, in order
  snSamples,  \* per sample: the u given to Math.log, the draws made for it, z
  snMode,     \* image-noise element: useState mode
  snShape     \* image-noise element: useState sampledShape (<<>> for null)

snVars == <<snKind, snDraws, snSamples, snMode, snShape>>

VARIABLES
  kdWhich,    \* which estimator ran last ("none": no call yet)
  kdSamples,  \* its argument samples (data), in units of 1 / SCALE
  kdGrid,     \* its argument grid, in units of 1 / SCALE
  kdYs        \* the array it returned

kdVars == <<kdWhich, kdSamples, kdGrid, kdYs>>

VARIABLES
  dsExp,             \* useState exp ("none" outside the data-simulation runs)
  dsBins,            \* useState bins
  dsCounts,          \* useState counts
  dsPrevCounts,      \* useState prevCounts
  dsLastIdx,         \* useState lastIdx (-1 for null)
  dsHist,            \* useState hist
  dsPrevHist,        \* useState prevHist
  dsAnimStartFrame,  \* useState animStartFrame
  dsPauseTimer,      \* pauseTimer.current: a timer id, 0 for null
  dsTimers,          \* the timeouts set and neither fired nor cleared
  dsPlaying,         \* the player: TRUE while it plays
  dsFrame,           \* the player: getCurrentFrame()
  dsGen,             \* history: number of Generate requests so far
  dsLast             \* history: the Generate that has just run, if one has

dsVars ==
  <<dsExp, dsBins, dsCounts, dsPrevCounts, dsLastIdx, dsHist, dsPrevHist,
    dsAnimStartFrame, dsPauseTimer, dsTimers, dsPlaying, dsFrame, dsGen, dsLast>>

VARIABLES
  hrElement,         \* the element whose player clock is followed ("none" outside these runs)
  hrFrame,           \* the player: getCurrentFrame()
  hrAnimStartFrame,  \* useState animStartFrame
  hrPlaying,         \* the player: TRUE while it plays
  hrTimer,           \* frames of playback time until the pause timeout fires, -1 for none
  hrAnimating,       \* useState isAnimating (jigsaw)
  hrReset            \* history: a reset or grid change has happened

hrVars == <<hrElement, hrFrame, hrAnimStartFrame, hrPlaying, hrTimer, hrAnimating, hrReset>>

VARIABLES
  nhDist2d,          \* useState dist2d ("none" outside the noise-history runs)
  nhBase,            \* the base memo: the sequence of base points [x, y]
  nhGauss,           \* useState gaussMeanX, gaussMeanY, gaussVarX, gaussVarY
  noiseMode,         \* useState noiseMode
  noiseHistory,      \* useState noiseHistory
  nhShown,           \* the points curX, curY the noise mode renders (<<>> outside it)
  nhTrail            \* history: the last two requests, each with the state it found

nhVars == <<nhDist2d, nhBase, nhGauss, noiseMode, noiseHistory, nhShown, nhTrail>>

VARIABLES
  imgH,              \* useState imgH, in units of 1 / DimUnit (0 outside the image-noise runs)
  imgW,              \* useState imgW, in units of 1 / DimUnit
  channels,          \* useState channels, in units of 1 / DimUnit
  data,              \* useState data
  sampledShape,      \* useState sampledShape (NoShape for null)
  mode,              \* useState mode
  imLast             \* history: the latest request and the state it found

imVars == <<imgH, imgW, channels, data, sampledShape, mode, imLast>>

VARIABLES
  rsMode,            \* prop mode of HowImageNoiseComposition ("none" outside its runs)
  rsData,            \* prop data
  rsH,               \* prop imgH, in units of 1 / DimUnit
  rsW,               \* prop imgW, in units of 1 / DimUnit
  rsChannels,        \* prop channels, in units of 1 / DimUnit
  rsFlat,            \* the memo flat
  rsReshaped,        \* the memo reshaped
  rsIdx,             \* history: the idx read for each entry of reshaped, in units of 1 / DimUnit^2
  rsRendered         \* the component has rendered with these props

rsVars == <<rsMode, rsData, rsH, rsW, rsChannels, rsFlat, rsReshaped, rsIdx, rsRendered>>

vars == <<shVars, compVars, schVars, elVars, smVars, nzVars, jgVars, snVars, kdVars, dsVars, hrVars, nhVars, imVars, rsVars>>

NoShot == [k |-> -1]

(***************************************************************************)
(* seededShuffle as called by onShuffle and by the grid-change effect      *)
(***************************************************************************)
ShInit ==
  /\ shN = 0
  /\ shSeed = <<0, 0>>
  /\ shArr = <<>>
  /\ shJs = <<>>
  /\ rndState = <<0, 0>>
  /\ shMemo = NoCall
  /\ shBetween = 0

CallShuffleResult(n, seed, keep, r) ==
  /\ shN' = n
  /\ shSeed' = seed
  /\ shArr' = r.arr
  /\ shJs' = r.js
  /\ rndState' = r.s
  /\ shMemo' = IF keep THEN [n |-> n, seed |-> seed, arr |-> r.arr] ELSE shMemo
  /\ shBetween' = IF keep THEN 0
                  ELSE IF shMemo = NoCall \/ shBetween >= MaxBetween THEN shBetween
                  ELSE shBetween + 1

\* one call seededShuffle(n, seed); keep decides whether the history
\* variables remember this call
CallShuffle(n, seed, keep) ==
  /\ CallShuffleResult(n, seed, keep, ShuffleOn(n, mulberry32New(seed, rndState)))
  /\ UNCHANGED <<compVars, schVars, elVars, smVars, nzVars, jgVars, snVars, kdVars, dsVars, hrVars, nhVars, imVars, rsVars>>

(***************************************************************************)
(* A composition in its player: props change, frames are shown             *)
(***************************************************************************)
CompIdle ==
  /\ view = "none"
  /\ steps = 0
  /\ framesPerStep = 0
  /\ scheduler = "linear"
  /\ frame = 0
  /\ alphaBar = <<>>
  /\ basePx = <<>>
  /\ noise = <<>>
  /\ rendered = NoShot

CompInit ==
  /\ view \in Views
  /\ steps \in 0..MaxSteps
  /\ framesPerStep \in FramesPerStepSet
  /\ scheduler = "linear"
  /\ frame = 0
  /\ alphaBar = BuildSchedule(view, scheduler, steps)
  /\ basePx = <<>>
  /\ noise = <<>>
  /\ rendered = Render(view, steps, framesPerStep, frame, alphaBar, basePx, noise)

\* the render that follows every change
Rerender ==
  rendered' = Render(view', steps', framesPerStep', frame', alphaBar', basePx', noise')

\* the player shows frame f of the active frames or of the tail hold
SetFrame(f) ==
  /\ view # "none"
  /\ f < ActiveFrames(steps, framesPerStep) + MaxTail
  /\ frame' = f
  /\ UNCHANGED <<view, steps, framesPerStep, scheduler, alphaBar, basePx, noise>>
  /\ Rerender
  /\ UNCHANGED <<shVars, schVars, elVars, smVars, nzVars, jgVars, snVars, kdVars, dsVars, hrVars, nhVars, imVars, rsVars>>

\* a new steps prop: the schedule memo is recomputed
SetSteps(n) ==
  /\ view # "none"
  /\ n # steps
  /\ steps' = n
  /\ alphaBar' = BuildSchedule(view, scheduler, n)
  /\ UNCHANGED <<view, framesPerStep, scheduler, frame, basePx, noise>>
  /\ Rerender
  /\ UNCHANGED <<shVars, schVars, elVars, smVars, nzVars, jgVars, snVars, kdVars, dsVars, hrVars, nhVars, imVars, rsVars>>

\* a new scheduler prop (image view): the schedule memo is recomputed
SetScheduler(sc) ==
  /\ view = "image"
  /\ sc # scheduler
  /\ scheduler' = sc
  /\ alphaBar' = BuildSchedule(view, sc, steps)
  /\ UNCHANGED <<view, steps, framesPerStep, frame, basePx, noise>>
  /\ Rerender
  /\ UNCHANGED <<shVars, schVars, elVars, smVars, nzVars, jgVars, snVars, kdVars, dsVars, hrVars, nhVars, imVars, rsVars>>

\* the image finished loading (image view): basePx is set and the noise memo,
\* keyed on basePx, draws a buffer of the same length from a new generator
LoadImage(img) ==
  /\ view = "image"
  /\ img # basePx
  /\ basePx' = img
  /\ noise' = FillNoise(Len(img), NoiseSeed, <<>>).e
  /\ UNCHANGED <<view, steps, framesPerStep, scheduler, frame, alphaBar>>
  /\ Rerender
  /\ UNCHANGED <<shVars, schVars, elVars, smVars, nzVars, jgVars, snVars, kdVars, dsVars, hrVars, nhVars, imVars, rsVars>>

MaxFrame == MaxSteps * 6 + MaxTail

(***************************************************************************)
(* The schedule builders called directly                                   *)
(***************************************************************************)
SchIdle ==
  /\ schT = 0
  /\ schId = "linear"
  /\ schOut = <<>>

\* one call of the builder registered under id with T steps
CallBuilder(id, T) ==
  /\ schT' = T
  /\ schId' = id
  /\ schOut' = BuilderTable[T][id]
  /\ UNCHANGED <<shVars, compVars, elVars, smVars, nzVars, jgVars, snVars, kdVars, dsVars, hrVars, nhVars, imVars, rsVars>>

(***************************************************************************)
(* A Steps input receiving change events                                   *)
(***************************************************************************)
ElIdle ==
  /\ elView = "none"
  /\ elText = <<>>
  /\ elSteps = 0

ElInit ==
  /\ elView \in Views
  /\ elText = <<>>
  /\ elSteps = StepsDefault(elView) * UNIT

\* onChange: setSteps(Math.max(lo, Math.min(hi, Number(e.target.value) || lo)))
ChangeSteps(t) ==
  /\ elView # "none"
  /\ elText' = t
  /\ elSteps' = onChangeSteps(elView, t, UNIT)
  /\ UNCHANGED elView
  /\ UNCHANGED <<shVars, compVars, schVars, smVars, nzVars, jgVars, snVars, kdVars, dsVars, hrVars, nhVars, imVars, rsVars>>

(***************************************************************************)
(* The forward sample of one component                                     *)
(***************************************************************************)
SmIdle ==
  /\ smView = "none"
  /\ smAb = 0
  /\ smX0 = 0
  /\ smEps = 0
  /\ smOut = 0

\* the pixel loop (image) or the dot loop (point cloud) computes one component
Sample(v, ab, x0, e) ==
  /\ smView' = v
  /\ smAb' = ab
  /\ smX0' = x0
  /\ smEps' = e
  /\ smOut' = SampleAt(ab, x0, e)
  /\ UNCHANGED <<shVars, compVars, schVars, elVars, nzVars, jgVars, snVars, kdVars, dsVars, hrVars, nhVars, imVars, rsVars>>

(***************************************************************************)
(* The noise buffer across control changes                                 *)
(***************************************************************************)
NzIdle ==
  /\ nzView = "none"
  /\ nzInputs = [n |-> 0]
  /\ epsRng = <<0, 0>>
  /\ eps = <<>>
  /\ nzFirst = <<>>
  /\ nzRegens = 0

\* the first render: the generator memo and the buffer memo are both computed
Mount(v, inp, r) ==
  /\ nzView = v /\ nzInputs = inp
  /\ epsRng = r.s /\ eps = r.e
  /\ nzFirst = (inp :> r.e)
NzInit ==
  /\ nzRegens = 0
  /\ \/ \E inp \in ForwardInputs : Mount("forward", inp, EpsForward(EpsSeedForward, inp))
     \/ \E inp \in ReverseInputs :
          Mount("reverse", inp, EpsReverse(EpsSeedReverse(inp.n, ReverseSteps, inp.dist1d), inp))
     \/ \E inp \in ImageInputs : Mount("image", inp, [s |-> <<0, 0>>, e |-> NoiseImage(inp).e])

\* a regeneration: the buffer is replaced, the history keeps the first buffer
\* of every value of the inputs
Regenerated(inp, r) ==
  /\ nzRegens < MaxRegens
  /\ nzInputs' = inp
  /\ epsRng' = r.s
  /\ eps' = r.e
  /\ nzFirst' = IF inp \in DOMAIN nzFirst THEN nzFirst ELSE nzFirst @@ (inp :> r.e)
  /\ nzRegens' = nzRegens + 1
  /\ UNCHANGED nzView
  /\ UNCHANGED <<shVars, compVars, schVars, elVars, smVars, jgVars, snVars, kdVars, dsVars, hrVars, nhVars, imVars, rsVars>>

\* 2D forward view: a control of the eps memo changes; epsSeed is a constant,
\* so the generator memo keeps the generator made at the mount
ChangeForward(inp) ==
  /\ nzView = "forward"
  /\ inp # nzInputs
  /\ Regenerated(inp, EpsForward(epsRng, inp))

\* reverse view: n or dist1d changes; the generator memo is recomputed only
\* when epsSeed changes, the base memo and with it the eps memo always
ReverseRng(old, new) ==
  IF EpsSeedReverse(new.n, ReverseSteps, new.dist1d) = EpsSeedReverse(old.n, ReverseSteps, old.dist1d)
  THEN epsRng ELSE EpsSeedReverse(new.n, ReverseSteps, new.dist1d)
ChangeReverse(inp) ==
  /\ nzView = "reverse"
  /\ inp # nzInputs
  /\ Regenerated(inp, EpsReverse(ReverseRng(nzInputs, inp), inp))

\* image view: another image has loaded; the noise memo makes its own generator
ChangeImage(inp) ==
  /\ nzView = "image"
  /\ inp # nzInputs
  /\ Regenerated(inp, [s |-> epsRng, e |-> NoiseImage(inp).e])

(***************************************************************************)
(* The jigsaw element: Shuffle, Solve, the grid input and the pause timer  *)
(***************************************************************************)
JgIdle ==
  /\ grid = 0
  /\ perm = <<>>
  /\ permFrom = <<>>
  /\ permTo = <<>>
  /\ animStartFrame = 0
  /\ isAnimating = FALSE
  /\ lastAction = "solved"
  /\ shuffleSeed = <<0, 0>>
  /\ pauseTimerRef = 0
  /\ timers = {}
  /\ playing = FALSE
  /\ playerFrame = 0
  /\ jgOp = [op |-> "none", during |-> FALSE]
  /\ jgBumps = 0

\* the state once the element has mounted and its effect has run
JgInit ==
  /\ grid = InitialGrid
  /\ perm = identity(InitialGrid)
  /\ permFrom = identity(InitialGrid)
  /\ permTo = identity(InitialGrid)
  /\ animStartFrame = 0
  /\ isAnimating = FALSE
  /\ lastAction = "solved"
  /\ shuffleSeed \in JigsawSeeds
  /\ pauseTimerRef = 0
  /\ timers = {}
  /\ playing = FALSE
  /\ playerFrame = 0
  /\ jgOp = [op |-> "mount", during |-> FALSE]
  /\ jgBumps = 0

\* window.setTimeout returns an id no pending timeout has
NewTimer(ts) ==
  CHOOSE i \in 1..(Cardinality(ts) + 1) : i \notin ts /\ \A j \in 1..(i - 1) : j \in ts

\* the pending timeouts after clearPauseTimer()
clearPauseTimerKeeping(ref, ts) == ts
clearPauseTimer(ref, ts) == IF ref # 0 THEN ts \ {ref} ELSE ts

StartTimerDropped(ts) ==
  /\ timers' = ts
  /\ pauseTimerRef' = 0
StartTimer(ts) ==
  /\ timers' = ts \cup {NewTimer(ts)}
  /\ pauseTimerRef' = NewTimer(ts)

\* startTransition past its guard
BeginTransition(nextPerm, nextLast) ==
  /\ permFrom' = perm
  /\ permTo' = nextPerm
  /\ animStartFrame' = playerFrame
  /\ perm' = nextPerm
  /\ isAnimating' = TRUE
  /\ lastAction' = nextLast
  /\ playing' = TRUE
  /\ StartTimer(clearPauseTimer(pauseTimerRef, timers))

startTransitionUnguarded(nextPerm, nextLast) == BeginTransition(nextPerm, nextLast)
startTransition(nextPerm, nextLast) ==
  IF isAnimating
  THEN UNCHANGED <<perm, permFrom, permTo, animStartFrame, isAnimating, lastAction,
                   pauseTimerRef, timers, playing>>
  ELSE BeginTransition(nextPerm, nextLast)

onShuffleSeeded(newSeed) ==
  /\ shuffleSeed' = newSeed
  /\ startTransition(seededShuffle(grid, newSeed), "shuffled")

onShuffle ==
  /\ grid # 0
  /\ jgBumps < MaxBumps
  /\ onShuffleSeeded(Add32(shuffleSeed, <<0, 1>>))
  /\ jgOp' = [op |-> "shuffle", during |-> isAnimating]
  /\ jgBumps' = jgBumps + 1
  /\ UNCHANGED <<grid, playerFrame>>
  /\ UNCHANGED <<shVars, compVars, schVars, elVars, smVars, nzVars, snVars, kdVars, dsVars, hrVars, nhVars, imVars, rsVars>>

onSolve ==
  /\ grid # 0
  /\ startTransition(identity(grid), "solved")
  /\ jgOp' = [op |-> "solve", during |-> isAnimating]
  /\ UNCHANGED <<grid, playerFrame, shuffleSeed, jgBumps>>
  /\ UNCHANGED <<shVars, compVars, schVars, elVars, smVars, nzVars, snVars, kdVars, dsVars, hrVars, nhVars, imVars, rsVars>>

\* the permutation the grid-change effect lays out
GridTargetSolved(g) == identity(g)
GridTarget(g) ==
  IF lastAction = "shuffled" THEN seededShuffle(g, shuffleSeed) ELSE identity(g)

GridLayout(target) ==
  /\ perm' = target
  /\ permFrom' = target
  /\ permTo' = target

\* the grid input takes another value; the effect keyed on grid runs
GridChange(g) ==
  /\ grid # 0
  /\ g # grid
  /\ grid' = g
  /\ timers' = clearPauseTimer(pauseTimerRef, timers)
  /\ pauseTimerRef' = 0
  /\ isAnimating' = FALSE
  /\ playing' = FALSE
  /\ GridLayout(GridTarget(g))
  /\ animStartFrame' = 0
  /\ playerFrame' = 0
  /\ jgOp' = [op |-> "grid", during |-> isAnimating]
  /\ UNCHANGED <<lastAction, shuffleSeed, jgBumps>>
  /\ UNCHANGED <<shVars, compVars, schVars, elVars, smVars, nzVars, snVars, kdVars, dsVars, hrVars, nhVars, imVars, rsVars>>

\* a pending timeout expires and its callback runs
TimerFire ==
  /\ \E id \in timers : timers' = timers \ {id}
  /\ playing' = FALSE
  /\ isAnimating' = FALSE
  /\ pauseTimerRef' = 0
  /\ jgOp' = [op |-> "timer", during |-> isAnimating]
  /\ UNCHANGED <<grid, perm, permFrom, permTo, animStartFrame, lastAction, shuffleSeed,
                 playerFrame, jgBumps>>
  /\ UNCHANGED <<shVars, compVars, schVars, elVars, smVars, nzVars, snVars, kdVars, dsVars, hrVars, nhVars, imVars, rsVars>>

\* the playing player shows its next frame
PlayerTick ==
  /\ playing
  /\ playerFrame < MaxPlayFrame
  /\ playerFrame' = playerFrame + 1
  /\ UNCHANGED <<grid, perm, permFrom, permTo, animStartFrame, isAnimating, lastAction,
                 shuffleSeed, pauseTimerRef, timers, playing, jgOp, jgBumps>>
  /\ UNCHANGED <<shVars, compVars, schVars, elVars, smVars, nzVars, snVars, kdVars, dsVars, hrVars, nhVars, imVars, rsVars>>

\* JigsawComposition: tileIndex -> boardPositionIndex, and whether any tile's
\* start differs from its end
invOf(p) == [tile \in 1..Len(p) |-> CHOOSE pos \in 1..Len(p) : p[pos] = tile - 1]
TweenShown(from, to) == \E tile \in 1..Len(from) : invOf(from)[tile] # invOf(to)[tile]

(***************************************************************************)
(* The standard-normal samplers                                            *)
(***************************************************************************)
SnIdle ==
  /\ snKind = "none"
  /\ snDraws = <<>>
  /\ snSamples = <<>>
  /\ snMode = "empty"
  /\ snShape = <<>>

\* while (u === 0) u = rng();  -- the index of the draw the loop ends on,
\* i being the index of its first draw
RECURSIVE SkipZeros(_, _)
SkipZerosUnguarded(ds, i) == i
SkipZeros(ds, i) == IF ds[i] = <<0, 0>> THEN SkipZeros(ds, i + 1) ELSE i

\* handleSample: if (u === 0) u = 1e-9, about 4 / 2^32
TINY == <<0, 4>>
GuardTiny(u) == IF u = <<0, 0>> THEN TINY ELSE u

\* Math.sqrt(-2 * Math.log(u)) * Math.cos(2 * Math.PI * v); Math.log(0) is
\* -Infinity and the product is not a finite number
NormalTable ==
  [u \in UniformDraws \cup {TINY} |->
     [v \in UniformDraws |-> IF u = <<0, 0>> THEN NaN ELSE BoxMuller(u, v)]]
NormalFrom(u, v) == NormalTable[u][v]

\* one sample: u is given to Math.log after the draws first..at were made for it
Sampled(u, first, at, v) == [u |-> u, first |-> first, at |-> at, z |-> NormalFrom(u, v)]

\* randn(rng), randn() and boxMuller(): both u and v are redrawn while zero
RedrawnV(ds, iu, iv) == <<Sampled(ds[iu], 1, iu, ds[iv])>>
RedrawnU(ds, iu) == RedrawnV(ds, iu, SkipZeros(ds, iu + 1))
boxMuller(ds) == RedrawnU(ds, SkipZeros(ds, 1))

\* handleSample: one draw for u, guarded; v is used as drawn
RECURSIVE handleSampleLoop(_, _, _, _)
handleSampleLoop(ds, total, i, out) ==
  IF i >= total THEN out
  ELSE handleSampleLoop(ds, total, i + 1,
         Append(out, Sampled(GuardTiny(ds[2 * i + 1]), 2 * i + 1, 2 * i + 1, ds[2 * i + 2])))

Ran(kind, ds, samples) ==
  /\ snKind' = kind
  /\ snDraws' = ds
  /\ snSamples' = samples
  /\ UNCHANGED <<shVars, compVars, schVars, elVars, smVars, nzVars, jgVars, kdVars, dsVars, hrVars, nhVars, imVars, rsVars>>

\* the seeded helpers of the compositions and elements, on any generator
CallRandn(ds) ==
  /\ Ran("randn", ds, boxMuller(ds))
  /\ UNCHANGED <<snMode, snShape>>

\* the data-simulation element's boxMuller, on Math.random
CallBoxMuller(ds) ==
  /\ Ran("boxMuller", ds, boxMuller(ds))
  /\ UNCHANGED <<snMode, snShape>>

\* the image-noise element's Sample button; resetPlayer leaves the player,
\* which nothing here starts, paused at frame 0
handleSampleShaped(ds, H, W, C) ==
  /\ Ran("handleSample", ds, handleSampleLoop(ds, H * W * C, 0, <<>>))
  /\ snShape' = [h |-> H, w |-> W, c |-> C]
  /\ snMode' = "sample"
handleSample(ds, sh) ==
  handleSampleShaped(ds, Max(1, Min(256, sh.h)), Max(1, Min(256, sh.w)), Max(1, Min(3, sh.c)))

(***************************************************************************)
(* The Gaussian kernel density estimators kdeEstimate and kde              *)
(***************************************************************************)
\* arithmetic on NaN gives NaN, and so does Math.max(1e-6, NaN)
Num(a, r) == IF a = NaN THEN NaN ELSE r

\* samples.length || 1
KdeN(samples) == IF Len(samples) = 0 THEN 1 ELSE Len(samples)

\* for (let i = 0; i < n; i++) mean += samples[i]
RECURSIVE KdeTotal(_, _, _, _)
KdeTotal(samples, n, i, acc) ==
  IF i >= n THEN acc
  ELSE KdeTotal(samples, n, i + 1, Num(acc, Num(At(samples, i), acc + At(samples, i))))

\* for (...) { const d = samples[i] - mean; v += d * d; }, in units of 1 / SCALE^2
RECURSIVE KdeSquares(_, _, _, _, _)
KdeSquares(samples, n, mean, i, acc) ==
  IF i >= n THEN acc
  ELSE KdeSquares(samples, n, mean, i + 1,
         Num(acc, Num(At(samples, i), Num(mean,
           acc + (At(samples, i) - mean) * (At(samples, i) - mean)))))

\* 1e-6 in units of 1 / SCALE^2, Math.sqrt(2 * Math.PI), and
\* Math.pow(n, -1 / 5) for n = 1..5
VAR_FLOOR == 100
SQRT_2PI == 25066
PowMinusFifth == <<10000, 8706, 8027, 7579, 7248>>

\* h = 1.06 * std * Math.pow(n, -1 / 5) with std = Math.sqrt(Math.max(1e-6, v))
KdeBandwidth(n, v) ==
  Num(v, RoundDiv(106 * MulS(ISqrt(Max(VAR_FLOOR, v)), PowMinusFifth[n]), 100))

\* Math.exp(-0.5 * z * z), which is below 1 / SCALE beyond |z| = 4.5
Kernel(z) ==
  IF Abs(z) > 45000 THEN 0 ELSE Exp(-RoundDiv(RoundDiv(z, 10) * RoundDiv(z, 10), 200))

RECURSIVE KdeKernels(_, _, _, _, _, _)
KdeKernels(samples, n, h, x, i, acc) ==
  IF i >= n THEN acc
  ELSE KdeKernels(samples, n, h, x, i + 1, acc + Kernel(DivS(x - At(samples, i), h)))

\* ys[j] = inv * s with inv = 1 / (Math.sqrt(2 * Math.PI) * h * n)
KdeAt(samples, n, h, x) ==
  (RoundDiv(DivS(SCALE, MulS(SQRT_2PI, h) * n), 100) * KdeKernels(samples, n, h, x, 0, 0))
    \div 100
KdeOnGrid(samples, xs, n, h) ==
  [j \in 1..Len(xs) |-> Num(h, KdeAt(samples, n, h, xs[j]))]
KdeFromSquares(samples, xs, n, sq) ==
  KdeOnGrid(samples, xs, n, KdeBandwidth(n, Num(sq, RoundDiv(sq, Max(1, n - 1)))))
KdeFromTotal(samples, xs, n, total) ==
  KdeFromSquares(samples, xs, n,
    KdeSquares(samples, n, Num(total, RoundDiv(total, n)), 0, 0))
kdeEstimate(samples, xs) ==
  KdeFromTotal(samples, xs, KdeN(samples), KdeTotal(samples, KdeN(samples), 0, 0))

\* kdeEstimate, tabulated once over the arguments followed
KdeTable == [q \in SampleSeqs |-> [g \in Grids |-> kdeEstimate(q, g)]]

KdIdle ==
  /\ kdWhich = "none"
  /\ kdSamples = <<>>
  /\ kdGrid = <<>>
  /\ kdYs = <<>>

\* one call of kdeEstimate (data simulation) or of kde (reverse view), which
\* have the same body
CallKde(which, samples, xs) ==
  /\ kdWhich' = which
  /\ kdSamples' = samples
  /\ kdGrid' = xs
  /\ kdYs' = KdeTable[samples][xs]
  /\ UNCHANGED <<shVars, compVars, schVars, elVars, smVars, nzVars, jgVars, snVars, dsVars, hrVars, nhVars, imVars, rsVars>>

(***************************************************************************)
(* The data-simulation element: Generate, Reset, experiment and bins       *)
(***************************************************************************)
DsIdle ==
  /\ dsExp = "none"
  /\ dsBins = 0
  /\ dsCounts = <<>>
  /\ dsPrevCounts = <<>>
  /\ dsLastIdx = -1
  /\ dsHist = <<>>
  /\ dsPrevHist = <<>>
  /\ dsAnimStartFrame = 0
  /\ dsPauseTimer = 0
  /\ dsTimers = {}
  /\ dsPlaying = FALSE
  /\ dsFrame = 0
  /\ dsGen = 0
  /\ dsLast = NoGenerate

Zeros(n) == [i \in 1..n |-> 0]
\* labels.length
LabelCount(e) == IF e = "coin" THEN 2 ELSE IF e = "dice" THEN 6 ELSE 0
\* clampInt(b, 5, 200), the number of bins of makeEdges(b)
BinCount(b) == Max(5, Min(200, b))

\* the state once the element has mounted and its effects have run
DsInit ==
  /\ dsExp = "coin"
  /\ dsBins = InitialBins
  /\ dsCounts = Zeros(LabelCount("coin"))
  /\ dsPrevCounts = Zeros(LabelCount("coin"))
  /\ dsLastIdx = -1
  /\ dsHist = Zeros(InitialBins)
  /\ dsPrevHist = Zeros(InitialBins)
  /\ dsAnimStartFrame = 0
  /\ dsPauseTimer = 0
  /\ dsTimers = {}
  /\ dsPlaying = FALSE
  /\ dsFrame = 0
  /\ dsGen = 0
  /\ dsLast = NoGenerate

\* if (pauseTimer.current) { window.clearTimeout(pauseTimer.current); ... }
DsCleared(ref, ts) == {t \in ts : t.id # ref}

\* the timeout playTweenThenPause sets: due (animDuration + 2) / fps seconds
\* after the call
TweenTimer(id) == [id |-> id, frames |-> DsAnimDuration + 2, fps |-> DsFps]

playTweenThenPause ==
  /\ dsGen < MaxGenerates
  /\ dsGen' = dsGen + 1
  /\ dsTimers' = DsCleared(dsPauseTimer, dsTimers) \cup {TweenTimer(dsGen + 1)}
  /\ dsPauseTimer' = dsGen + 1
  /\ dsAnimStartFrame' = dsFrame
  /\ dsPlaying' = TRUE
  /\ UNCHANGED <<dsExp, dsBins, dsFrame>>
  /\ UNCHANGED <<shVars, compVars, schVars, elVars, smVars, nzVars, jgVars, snVars, kdVars, hrVars, nhVars, imVars, rsVars>>

\* arr with one more sample at each of the 0-based indices in ks
AddSamplesOnce(arr, ks) ==
  IF ks = <<>> THEN arr ELSE [arr EXCEPT ![Head(ks) + 1] = @ + 1]
RECURSIVE AddSamples(_, _)
AddSamples(arr, ks) ==
  IF ks = <<>> THEN arr
  ELSE AddSamples([arr EXCEPT ![Head(ks) + 1] = @ + 1], Tail(ks))

\* the indices N draws of a discrete experiment are followed on: the first
\* and the last label
DrawIndices(len) == {0, len - 1}
\* N draws from the values vs, followed in non-decreasing order: the counts
\* do not depend on the order of the draws
DrawsFrom(vs, N) == {ds \in [1..N -> vs] : \A i \in 1..(N - 1) : ds[i] <= ds[i + 1]}
Draws(len, N) == DrawsFrom(DrawIndices(len), N)

\* edges[i] of makeEdges, times the number B of bins
EdgeTimes(i, B) == XMIN * B + i * (XMAX - XMIN)
\* findBin(x, edges) on the B + 1 edges of makeEdges
findBin(x, B) ==
  IF x <= XMIN THEN 0
  ELSE IF x >= XMAX THEN B - 1
  ELSE IF \E i \in 0..(B - 1) : x * B >= EdgeTimes(i, B) /\ x * B < EdgeTimes(i + 1, B)
       THEN CHOOSE i \in 0..(B - 1) :
              /\ x * B >= EdgeTimes(i, B) /\ x * B < EdgeTimes(i + 1, B)
              /\ \A j \in 0..(i - 1) : ~(x * B >= EdgeTimes(j, B) /\ x * B < EdgeTimes(j + 1, B))
       ELSE B - 1
\* Math.max(0, Math.min(B - 1, findBin(sample, edges))) for each sample
BinsOf(xs, B) == [i \in 1..Len(xs) |-> Max(0, Min(B - 1, findBin(xs[i], B)))]

\* Generate on the current experiment: the draws ks of a discrete experiment,
\* or the samples xs of the Gaussian one falling in the bins ks; the density
\* curve recomputed from the histogram is not part of the state here
Generate(ks, single, xs, asked) ==
  /\ playTweenThenPause
  /\ IF dsExp = "gaussian"
     THEN /\ dsPrevHist' = dsHist
          /\ dsHist' = AddSamples(dsHist, ks)
          /\ UNCHANGED <<dsCounts, dsPrevCounts, dsLastIdx>>
     ELSE /\ dsLastIdx' = IF single THEN ks[1] ELSE -1
          /\ dsPrevCounts' = dsCounts
          /\ dsCounts' = AddSamples(dsCounts, ks)
          /\ UNCHANGED <<dsHist, dsPrevHist>>
  /\ dsLast' = [op |-> IF single THEN "one" ELSE "batch", asked |-> asked, ks |-> ks, xs |-> xs,
                before |-> IF dsExp = "gaussian" THEN dsHist ELSE dsCounts]

GenerateDrawing(N, single, asked) ==
  IF dsExp = "gaussian"
  THEN \E xs \in DrawsFrom(GaussianSamples, N) : Generate(BinsOf(xs, Len(dsHist)), single, xs, asked)
  ELSE \E ks \in Draws(Len(dsCounts), N) : Generate(ks, single, <<>>, asked)

onGenerateOne == GenerateDrawing(1, TRUE, 1)

\* N = clampInt(batch || 1, 1, 100000)
onGenerateBatch(batch) ==
  GenerateDrawing(Max(1, Min(100000, IF batch = 0 THEN 1 ELSE batch)), FALSE, batch)

onReset ==
  /\ dsExp # "none"
  /\ dsTimers' = DsCleared(dsPauseTimer, dsTimers)
  /\ dsPauseTimer' = 0
  /\ IF dsExp = "gaussian"
     THEN /\ dsHist' = Zeros(BinCount(dsBins))
          /\ dsPrevHist' = Zeros(BinCount(dsBins))
          /\ UNCHANGED <<dsCounts, dsPrevCounts, dsLastIdx>>
     ELSE /\ dsCounts' = Zeros(LabelCount(dsExp))
          /\ dsPrevCounts' = Zeros(LabelCount(dsExp))
          /\ dsLastIdx' = -1
          /\ UNCHANGED <<dsHist, dsPrevHist>>
  /\ dsAnimStartFrame' = 0
  /\ dsFrame' = 0
  /\ dsLast' = NoGenerate
  /\ UNCHANGED <<dsExp, dsBins, dsPlaying, dsGen>>
  /\ UNCHANGED <<shVars, compVars, schVars, elVars, smVars, nzVars, jgVars, snVars, kdVars, hrVars, nhVars, imVars, rsVars>>

\* labels.map((_, i) => old[i] ?? 0)
Reshaped(old, n) == [i \in 1..n |-> IF i <= Len(old) THEN old[i] ELSE 0]

\* the effects keyed on exp and on bins, run for the experiment e with b bins
SyncEffects(e, b) ==
  /\ IF e = "gaussian"
     THEN /\ dsHist' = Zeros(BinCount(b))
          /\ dsPrevHist' = Zeros(BinCount(b))
          /\ UNCHANGED <<dsCounts, dsPrevCounts, dsLastIdx>>
     ELSE /\ dsCounts' = Reshaped(dsCounts, LabelCount(e))
          /\ dsPrevCounts' = Reshaped(dsCounts, LabelCount(e))
          /\ dsLastIdx' = -1
          /\ UNCHANGED <<dsHist, dsPrevHist>>
  /\ dsFrame' = 0

\* the Experiment select takes another value
SetExp(e) ==
  /\ dsExp # "none"
  /\ e # dsExp
  /\ dsExp' = e
  /\ SyncEffects(e, dsBins)
  /\ dsLast' = NoGenerate
  /\ UNCHANGED <<dsBins, dsAnimStartFrame, dsPauseTimer, dsTimers, dsPlaying, dsGen>>
  /\ UNCHANGED <<shVars, compVars, schVars, elVars, smVars, nzVars, jgVars, snVars, kdVars, hrVars, nhVars, imVars, rsVars>>

\* the Bins input takes another value; only the effect of the Gaussian
\* experiment depends on it
SetBins(b) ==
  /\ dsExp # "none"
  /\ b # dsBins
  /\ dsBins' = b
  /\ dsLast' = NoGenerate
  /\ IF dsExp = "gaussian" THEN SyncEffects(dsExp, b)
     ELSE UNCHANGED <<dsCounts, dsPrevCounts, dsLastIdx, dsHist, dsPrevHist, dsFrame>>
  /\ UNCHANGED <<dsExp, dsAnimStartFrame, dsPauseTimer, dsTimers, dsPlaying, dsGen>>
  /\ UNCHANGED <<shVars, compVars, schVars, elVars, smVars, nzVars, jgVars, snVars, kdVars, hrVars, nhVars, imVars, rsVars>>

\* a pending timeout expires and its callback runs
DsTimerFire ==
  /\ \E t \in dsTimers : dsTimers' = dsTimers \ {t}
  /\ dsPlaying' = FALSE
  /\ dsPauseTimer' = 0
  /\ UNCHANGED <<dsExp, dsBins, dsCounts, dsPrevCounts, dsLastIdx, dsHist, dsPrevHist,
                 dsAnimStartFrame, dsFrame, dsGen>>
  /\ dsLast' = NoGenerate
  /\ UNCHANGED <<shVars, compVars, schVars, elVars, smVars, nzVars, jgVars, snVars, kdVars, hrVars, nhVars, imVars, rsVars>>

\* the playing player shows its next frame
DsPlayerTick ==
  /\ dsPlaying
  /\ dsFrame < MaxDsFrame
  /\ dsFrame' = dsFrame + 1
  /\ UNCHANGED <<dsExp, dsBins, dsCounts, dsPrevCounts, dsLastIdx, dsHist, dsPrevHist,
                 dsAnimStartFrame, dsPauseTimer, dsTimers, dsPlaying, dsGen>>
  /\ dsLast' = NoGenerate
  /\ UNCHANGED <<shVars, compVars, schVars, elVars, smVars, nzVars, jgVars, snVars, kdVars, hrVars, nhVars, imVars, rsVars>>

(***************************************************************************)
(* The player clock of the two tweened elements: the data simulation's     *)
(* playTweenThenPause / onReset and the jigsaw's startTransition / grid    *)
(* effect, restricted to the frame, animStartFrame and the pause timeout.  *)
(* One step of PlaybackFrame is 1 / fps seconds: a playing player shows    *)
(* its next frame and a pending timeout comes one frame's time closer.     *)
(***************************************************************************)
HrIdle ==
  /\ hrElement = "none"
  /\ hrFrame = 0
  /\ hrAnimStartFrame = 0
  /\ hrPlaying = FALSE
  /\ hrTimer = -1
  /\ hrAnimating = FALSE
  /\ hrReset = FALSE

HrInit ==
  /\ hrElement \in TweenElements
  /\ hrFrame = 0
  /\ hrAnimStartFrame = 0
  /\ hrPlaying = FALSE
  /\ hrTimer = -1
  /\ hrAnimating = FALSE
  /\ hrReset = FALSE

AnimDurationOf(e) == IF e = "jigsaw" THEN JgAnimDuration ELSE DsAnimDuration
FpsOf(e) == IF e = "jigsaw" THEN JgFps ELSE DsFps
LastFrame == DurationInFrames - 1

\* ((animDuration + 2) / fps) * 1000 ms, in frames of playback at fps
TimeoutFrames(e) == ((AnimDurationOf(e) + 2) * 1000 * FpsOf(e)) \div (FpsOf(e) * 1000)

\* Generate 1 / Generate N (playTweenThenPause), or Shuffle / Solve past the
\* isAnimating guard of startTransition
StartTween ==
  /\ hrElement = "jigsaw" => ~hrAnimating
  /\ hrAnimStartFrame' = hrFrame
  /\ hrAnimating' = (hrElement = "jigsaw")
  /\ hrPlaying' = TRUE
  /\ hrTimer' = TimeoutFrames(hrElement)
  /\ UNCHANGED <<hrElement, hrFrame, hrReset>>
  /\ UNCHANGED <<shVars, compVars, schVars, elVars, smVars, nzVars, jgVars, snVars, kdVars, dsVars, nhVars, imVars, rsVars>>

\* 1 / fps seconds pass; a player without loop stops on its last frame
PlaybackFrame ==
  /\ hrPlaying \/ hrTimer > 0
  /\ hrTimer # 0
  /\ hrFrame' = IF hrPlaying THEN Min(LastFrame, hrFrame + 1) ELSE hrFrame
  /\ hrPlaying' = (hrPlaying /\ hrFrame + 1 < LastFrame)
  /\ hrTimer' = IF hrTimer > 0 THEN hrTimer - 1 ELSE hrTimer
  /\ UNCHANGED <<hrElement, hrAnimStartFrame, hrAnimating, hrReset>>
  /\ UNCHANGED <<shVars, compVars, schVars, elVars, smVars, nzVars, jgVars, snVars, kdVars, dsVars, nhVars, imVars, rsVars>>

\* the timeout's callback: pause()
PauseTimeout ==
  /\ hrTimer = 0
  /\ hrPlaying' = FALSE
  /\ hrAnimating' = FALSE
  /\ hrTimer' = -1
  /\ UNCHANGED <<hrElement, hrFrame, hrAnimStartFrame, hrReset>>
  /\ UNCHANGED <<shVars, compVars, schVars, elVars, smVars, nzVars, jgVars, snVars, kdVars, dsVars, nhVars, imVars, rsVars>>

\* onReset (data simulation: the player is not paused) or a change of grid
\* (jigsaw: pause())
ResetTween ==
  /\ hrTimer' = -1
  /\ hrAnimStartFrame' = 0
  /\ hrFrame' = 0
  /\ hrPlaying' = (hrElement = "dataSim" /\ hrPlaying)
  /\ hrAnimating' = FALSE
  /\ hrReset' = TRUE
  /\ UNCHANGED hrElement
  /\ UNCHANGED <<shVars, compVars, schVars, elVars, smVars, nzVars, jgVars, snVars, kdVars, dsVars, nhVars, imVars, rsVars>>

(***************************************************************************)
(* The cumulative noise mode of the 2D forward view                        *)
(***************************************************************************)
NhIdle ==
  /\ nhDist2d = "none"
  /\ nhBase = <<>>
  /\ nhGauss = <<>>
  /\ noiseMode = FALSE
  /\ noiseHistory = <<>>
  /\ nhShown = <<>>
  /\ nhTrail = <<>>

\* 911_000_123 + (dist2d === "ring" ? 17 : 31) + (steps << 1)
baseNoiseSeed(dist2d, stepsProp) ==
  Add32(<<13900, 49723>>, <<0, (IF dist2d = "ring" THEN 17 ELSE 31) + 2 * stepsProp>>)

\* (baseNoiseSeed + s * 101_003) >>> 0
StepSeed(dist2d, stepsProp, s) ==
  Add32(baseNoiseSeed(dist2d, stepsProp),
        <<(s * STEP_STRIDE) \div W16, (s * STEP_STRIDE) % W16>>)

\* the values rngStep yields to randn during step s, in the order of the
\* calls: jitterX of point 0, jitterY of point 0, jitterX of point 1, ...
StepDraws ==
  [d \in NoiseDists |->
     [s \in 0..MaxNoiseSteps |->
        FillNoise(2 * MaxPoints, StepSeed(d, StepsDefault("forward"), s), <<>>).e]]

\* Math.sqrt(Math.max(1e-8, v))
StdOf(v) == IF v < 1 THEN 1 ELSE SqrtS(v)

\* cur + shiftFrac * (target - cur) + noiseFrac * (std * randn(rngStep))
MovePoint(cur, target, std, jitter) ==
  cur + MulS(SHIFT_FRAC, target - cur) + MulS(NOISE_FRAC, MulS(std, jitter))

\* the inner loop over the points for one step of the history
NoiseStepOn(cur, p, draws) ==
  [i \in 1..Len(cur) |->
     [x |-> MovePoint(cur[i].x, p.gaussMeanX, StdOf(p.gaussVarX), draws[2 * i - 1]),
      y |-> MovePoint(cur[i].y, p.gaussMeanY, StdOf(p.gaussVarY), draws[2 * i])]]

\* the loop over noiseHistory from step s on
RECURSIVE NoiseFoldFrom(_, _, _, _)
NoiseFoldFrom(cur, history, s, dist2d) ==
  IF s >= Len(history) THEN cur
  ELSE NoiseFoldFrom(NoiseStepOn(cur, history[s + 1], StepDraws[dist2d][s]),
                     history, s + 1, dist2d)

\* curX, curY of a render in noise mode: the fold starts from the base data
NoiseFold(base, history, dist2d) == NoiseFoldFrom(base, history, 0, dist2d)

\* what a render shows of the points
Rendered(shown, base, history, dist2d) ==
  IF shown THEN NoiseFold(base, history, dist2d) ELSE <<>>

NhInit ==
  /\ nhDist2d \in NoiseDists
  /\ nhBase \in NoiseBases
  /\ nhGauss = [gaussMeanX |-> 0, gaussMeanY |-> 0, gaussVarX |-> SCALE, gaussVarY |-> SCALE]
  /\ noiseMode = FALSE
  /\ noiseHistory = <<>>
  /\ nhShown = <<>>
  /\ nhTrail = <<>>

\* the trail after a request found the current state
Trailed(op) ==
  LET entry == [op |-> op, noiseMode |-> noiseMode, noiseHistory |-> noiseHistory,
                shown |-> nhShown]
  IN  IF nhTrail = <<>> THEN <<entry>> ELSE <<nhTrail[Len(nhTrail)], entry>>

NhRender(op, inNoiseMode, history) ==
  /\ noiseMode' = inNoiseMode
  /\ noiseHistory' = history
  /\ nhShown' = Rendered(inNoiseMode, nhBase, history, nhDist2d)
  /\ nhTrail' = Trailed(op)
  /\ UNCHANGED <<nhDist2d, nhBase>>
  /\ UNCHANGED <<shVars, compVars, schVars, elVars, smVars, nzVars, jgVars, snVars, kdVars, dsVars, hrVars, imVars, rsVars>>

\* setNoiseHistory((prev) => [...prev, {gaussMeanX, gaussMeanY, gaussVarX, gaussVarY}])
doOneStepNoise ==
  /\ Len(noiseHistory) < MaxNoiseSteps
  /\ NhRender("noise", TRUE, Append(noiseHistory, nhGauss))
  /\ UNCHANGED nhGauss

\* prev.slice(0, prev.length - 1), and prev itself when it is empty
SliceFirst(prev) == IF Len(prev) = 0 THEN prev ELSE SubSeq(prev, 2, Len(prev))
SliceLast(prev) == IF Len(prev) = 0 THEN prev ELSE SubSeq(prev, 1, Len(prev) - 1)

doRemoveNoiseStep ==
  /\ NhRender("remove", TRUE, SliceLast(noiseHistory))
  /\ UNCHANGED nhGauss

doAutoplay ==
  /\ NhRender("autoplay", FALSE, <<>>)
  /\ UNCHANGED nhGauss

\* the Gaussian mean and variance inputs
SetGauss(g) ==
  /\ g # nhGauss
  /\ nhGauss' = g
  /\ NhRender("controls", noiseMode, noiseHistory)

(***************************************************************************)
(* The image-noise element: dimension inputs, Sample, Reshape, Visualize   *)
(***************************************************************************)
NoShape == [h |-> 0, w |-> 0, c |-> 0]
NoRequest == [op |-> "none", mode |-> "empty", data |-> <<>>, sampledShape |-> NoShape]

ImIdle ==
  /\ imgH = 0
  /\ imgW = 0
  /\ channels = 0
  /\ data = <<>>
  /\ sampledShape = NoShape
  /\ mode = "empty"
  /\ imLast = NoRequest

\* useState(2), useState(2), useState(1), [], null, "empty"
ImInit ==
  /\ imgH = 2 * DimUnit
  /\ imgW = 2 * DimUnit
  /\ channels = 1 * DimUnit
  /\ data = <<>>
  /\ sampledShape = NoShape
  /\ mode = "empty"
  /\ imLast = NoRequest

Requested(op) == [op |-> op, mode |-> mode, data |-> data, sampledShape |-> sampledShape]

\* Math.max(1, Math.min(hi, Number(e.target.value) || 1))
onChangeDim(t, hi) == Max(DimUnit, Min(hi * DimUnit, OrElse(Number(t, DimUnit), DimUnit)))

setImgH(t) ==
  /\ imgH' = onChangeDim(t, 256)
  /\ imLast' = Requested("H")
  /\ UNCHANGED <<imgW, channels, data, sampledShape, mode>>
  /\ UNCHANGED <<shVars, compVars, schVars, elVars, smVars, nzVars, jgVars, snVars, kdVars, dsVars, hrVars, nhVars, rsVars>>

setImgW(t) ==
  /\ imgW' = onChangeDim(t, 256)
  /\ imLast' = Requested("W")
  /\ UNCHANGED <<imgH, channels, data, sampledShape, mode>>
  /\ UNCHANGED <<shVars, compVars, schVars, elVars, smVars, nzVars, jgVars, snVars, kdVars, dsVars, hrVars, nhVars, rsVars>>

setChannels(t) ==
  /\ channels' = onChangeDim(t, 3)
  /\ imLast' = Requested("C")
  /\ UNCHANGED <<imgH, imgW, data, sampledShape, mode>>
  /\ UNCHANGED <<shVars, compVars, schVars, elVars, smVars, nzVars, jgVars, snVars, kdVars, dsVars, hrVars, nhVars, rsVars>>

\* the number of passes of for (let i = 0; i < total; i++), total being
\* H * W * C in units of 1 / DimUnit^3
LoopPasses(total) ==
  (total + DimUnit * DimUnit * DimUnit - 1) \div (DimUnit * DimUnit * DimUnit)

\* the draws of one Sample: u, v, u, v, ...
PairStream(uv, n) == [j \in 1..(2 * n) |-> IF j % 2 = 1 THEN uv[1] ELSE uv[2]]

\* out of handleSample's loop
SampleOut(q) == [i \in 1..Len(q) |-> q[i].z]

\* handleSample past its three clamps; resetPlayer leaves the player, which
\* nothing here starts, paused at frame 0
handleSampleStored(uv, H, W, C) ==
  /\ data' = SampleOut(handleSampleLoop(PairStream(uv, LoopPasses(H * W * C)),
                                         LoopPasses(H * W * C), 0, <<>>))
  /\ sampledShape' = [h |-> H, w |-> W, c |-> C]
  /\ channels' = C
  /\ mode' = "sample"
  /\ imLast' = Requested("sample")
  /\ UNCHANGED <<imgH, imgW>>
  /\ UNCHANGED <<shVars, compVars, schVars, elVars, smVars, nzVars, jgVars, snVars, kdVars, dsVars, hrVars, nhVars, rsVars>>

handleSampleClick(uv) ==
  handleSampleStored(uv, Max(DimUnit, Min(256 * DimUnit, imgH)),
                     Max(DimUnit, Min(256 * DimUnit, imgW)),
                     Max(DimUnit, Min(3 * DimUnit, channels)))

\* if (!data.length || !sampledShape) return; setMode(m); resetPlayer()
ModeRequest(m) ==
  /\ mode' = IF Len(data) = 0 \/ sampledShape = NoShape THEN mode ELSE m
  /\ imLast' = Requested(m)
  /\ UNCHANGED <<imgH, imgW, channels, data, sampledShape>>
  /\ UNCHANGED <<shVars, compVars, schVars, elVars, smVars, nzVars, jgVars, snVars, kdVars, dsVars, hrVars, nhVars, rsVars>>

handleReshape == ModeRequest("reshape")
handleVisualize == ModeRequest("visualize")

(***************************************************************************)
(* The image-noise composition: flat and reshaped                          *)
(***************************************************************************)
RsIdle ==
  /\ rsMode = "none"
  /\ rsData = <<>>
  /\ rsH = 0
  /\ rsW = 0
  /\ rsChannels = 0
  /\ rsFlat = <<>>
  /\ rsReshaped = <<>>
  /\ rsIdx = <<>>
  /\ rsRendered = FALSE

\* the props of a first render
RsInit ==
  /\ rsMode \in CompositionModes
  /\ rsData \in DataArrays
  /\ rsH \in DimProps
  /\ rsW \in DimProps
  /\ rsChannels \in ChannelProps
  /\ rsFlat = <<>>
  /\ rsReshaped = <<>>
  /\ rsIdx = <<>>
  /\ rsRendered = FALSE

\* the number of passes of for (let i = 0; i < x; i++), x in units of 1 / unit
Passes(x, unit) == IF x <= 0 THEN 0 ELSE (x + unit - 1) \div unit

\* Math.min(3, Math.max(1, channels))
ChOf(c) == Min(3 * DimUnit, Max(DimUnit, c))

\* imgH * imgW * ch, in units of 1 / DimUnit^3
expectedLen(h, w, chv) == h * w * chv

\* data.slice(0, expectedLen): the end is truncated to an integer
Sliced(d, e) == SubSeq(d, 1, Min(Len(d), e \div (DimUnit * DimUnit * DimUnit)))

\* arr after for (let i = 0; i < expectedLen - arr.length; i++) arr.push(0)
Padded(arr, e) ==
  arr \o [i \in 1..Passes(e - Len(arr) * DimUnit * DimUnit * DimUnit,
                          DimUnit * DimUnit * DimUnit) |-> 0]

flat(d, e) == Padded(Sliced(d, e), e)

\* (r * imgW + col) * ch + c, in units of 1 / DimUnit^2
idxOf(r, col, c, w, chv) == (r * w + col * DimUnit) * chv + c * DimUnit * DimUnit

\* flat[idx] ?? 0: an index that is no whole number below flat.length reads
\* undefined
FlatAt(fl, idx) ==
  IF idx % (DimUnit * DimUnit) = 0 /\ idx \div (DimUnit * DimUnit) < Len(fl)
  THEN fl[idx \div (DimUnit * DimUnit) + 1]
  ELSE 0

\* the idx of every entry out[c][r][col] (positions counted from 1)
reshapedIdx(h, w, chv) ==
  [c \in 1..Passes(chv, DimUnit) |->
     [r \in 1..Passes(h, DimUnit) |->
        [col \in 1..Passes(w, DimUnit) |-> idxOf(r - 1, col - 1, c - 1, w, chv)]]]

reshaped(fl, h, w, chv) ==
  [c \in 1..Passes(chv, DimUnit) |->
     [r \in 1..Passes(h, DimUnit) |->
        [col \in 1..Passes(w, DimUnit) |-> FlatAt(fl, idxOf(r - 1, col - 1, c - 1, w, chv))]]]

\* one render of HowImageNoiseComposition: with mode "empty" or no data it
\* returns the prompt before flat and reshaped are computed
RenderWith(d, h, w, c, m) ==
  /\ ~rsRendered
  /\ rsRendered' = TRUE
  /\ UNCHANGED <<rsMode, rsData, rsH, rsW, rsChannels>>
  /\ IF m = "empty" \/ Len(d) = 0
     THEN /\ rsFlat' = <<>>
          /\ rsReshaped' = <<>>
          /\ rsIdx' = <<>>
     ELSE /\ rsFlat' = flat(d, expectedLen(h, w, ChOf(c)))
          /\ rsReshaped' = reshaped(flat(d, expectedLen(h, w, ChOf(c))), h, w, ChOf(c))
          /\ rsIdx' = reshapedIdx(h, w, ChOf(c))
  /\ UNCHANGED <<shVars, compVars, schVars, elVars, smVars, nzVars, jgVars, snVars, kdVars, dsVars, hrVars, nhVars, imVars>>

RenderImage == RenderWith(rsData, rsH, rsW, rsChannels, rsMode)

(***************************************************************************)
(* Specifications                                                          *)
(***************************************************************************)
Init == ShInit /\ CompInit /\ SchIdle /\ ElIdle /\ SmIdle /\ NzIdle /\ JgIdle /\ SnIdle /\ KdIdle /\ DsIdle /\ HrIdle /\ NhIdle /\ ImIdle /\ RsIdle
Next ==
  \/ \E f \in 0..MaxFrame : SetFrame(f)
  \/ \E n \in 0..MaxSteps : SetSteps(n)
  \/ \E sc \in SchedulerValues : SetScheduler(sc)
  \/ \E img \in Images : LoadImage(img)
Spec == Init /\ [][Next]_vars

InitShuffle == ShInit /\ CompIdle /\ SchIdle /\ ElIdle /\ SmIdle /\ NzIdle /\ JgIdle /\ SnIdle /\ KdIdle /\ DsIdle /\ HrIdle /\ NhIdle /\ ImIdle /\ RsIdle
NextShuffle ==
  \E n \in 1..MaxGrid, seed \in Seeds, keep \in BOOLEAN : CallShuffle(n, seed, keep)
SpecShuffle == InitShuffle /\ [][NextShuffle]_vars

InitSchedule == ShInit /\ CompIdle /\ SchIdle /\ ElIdle /\ SmIdle /\ NzIdle /\ JgIdle /\ SnIdle /\ KdIdle /\ DsIdle /\ HrIdle /\ NhIdle /\ ImIdle /\ RsIdle
NextSchedule == \E id \in Shapes, T \in 2..MaxT : CallBuilder(id, T)
SpecSchedule == InitSchedule /\ [][NextSchedule]_vars

InitSteps == ShInit /\ CompIdle /\ SchIdle /\ ElInit /\ SmIdle /\ NzIdle /\ JgIdle /\ SnIdle /\ KdIdle /\ DsIdle /\ HrIdle /\ NhIdle /\ ImIdle /\ RsIdle
NextSteps == \E t \in Texts : ChangeSteps(t)
SpecSteps == InitSteps /\ [][NextSteps]_vars

InitSample == ShInit /\ CompIdle /\ SchIdle /\ ElIdle /\ SmIdle /\ NzIdle /\ JgIdle /\ SnIdle /\ KdIdle /\ DsIdle /\ HrIdle /\ NhIdle /\ ImIdle /\ RsIdle
NextSample ==
  \/ \E ab \in SampleAbs, x0 \in PixelValues, e \in EpsValues : Sample("image", ab, x0, e)
  \/ \E ab \in SampleAbs, x0 \in CoordValues, e \in EpsValues : Sample("cloud", ab, x0, e)
SpecSample == InitSample /\ [][NextSample]_vars

InitNoise == ShInit /\ CompIdle /\ SchIdle /\ ElIdle /\ SmIdle /\ NzInit /\ JgIdle /\ SnIdle /\ KdIdle /\ DsIdle /\ HrIdle /\ NhIdle /\ ImIdle /\ RsIdle
NextNoise ==
  \/ \E inp \in ForwardInputs : ChangeForward(inp)
  \/ \E inp \in ReverseInputs : ChangeReverse(inp)
  \/ \E inp \in ImageInputs : ChangeImage(inp)
SpecNoise == InitNoise /\ [][NextNoise]_vars

InitJigsaw == ShInit /\ CompIdle /\ SchIdle /\ ElIdle /\ SmIdle /\ NzIdle /\ JgInit /\ SnIdle /\ KdIdle /\ DsIdle /\ HrIdle /\ NhIdle /\ ImIdle /\ RsIdle
NextJigsaw ==
  \/ onShuffle
  \/ onSolve
  \/ \E g \in 2..MaxGrid : GridChange(g)
  \/ TimerFire
  \/ PlayerTick
SpecJigsaw == InitJigsaw /\ [][NextJigsaw]_vars

\* timeouts that stay pending do expire
SpecJigsawFair == SpecJigsaw /\ WF_vars(TimerFire)

InitSamplers == ShInit /\ CompIdle /\ SchIdle /\ ElIdle /\ SmIdle /\ NzIdle /\ JgIdle /\ SnIdle /\ KdIdle /\ DsIdle /\ HrIdle /\ NhIdle /\ ImIdle /\ RsIdle
NextSamplers ==
  \/ \E ds \in DrawStreams : CallRandn(ds)
  \/ \E ds \in DrawStreams : CallBoxMuller(ds)
  \/ \E ds \in DrawStreams, sh \in ShapeInputs : handleSample(ds, sh)
SpecSamplers == InitSamplers /\ [][NextSamplers]_vars

InitKde == ShInit /\ CompIdle /\ SchIdle /\ ElIdle /\ SmIdle /\ NzIdle /\ JgIdle /\ SnIdle /\ KdIdle /\ DsIdle /\ HrIdle /\ NhIdle /\ ImIdle /\ RsIdle
NextKde ==
  \E which \in {"kdeEstimate", "kde"}, q \in SampleSeqs, g \in Grids : CallKde(which, q, g)
SpecKde == InitKde /\ [][NextKde]_vars

InitDataSim ==
  ShInit /\ CompIdle /\ SchIdle /\ ElIdle /\ SmIdle /\ NzIdle /\ JgIdle /\ SnIdle /\ KdIdle /\ DsInit /\ HrIdle /\ NhIdle /\ ImIdle /\ RsIdle
NextDataSim ==
  \/ onGenerateOne
  \/ \E batch \in BatchValues : onGenerateBatch(batch)
  \/ onReset
  \/ \E e \in Experiments : SetExp(e)
  \/ \E b \in BinsValues : SetBins(b)
  \/ DsTimerFire
  \/ DsPlayerTick
SpecDataSim == InitDataSim /\ [][NextDataSim]_vars

InitTween ==
  ShInit /\ CompIdle /\ SchIdle /\ ElIdle /\ SmIdle /\ NzIdle /\ JgIdle /\ SnIdle /\ KdIdle /\ DsIdle /\ HrInit /\ NhIdle /\ ImIdle /\ RsIdle
NextTween ==
  \/ StartTween
  \/ PlaybackFrame
  \/ PauseTimeout
  \/ ResetTween
SpecTween == InitTween /\ [][NextTween]_vars

InitNoiseHistory ==
  ShInit /\ CompIdle /\ SchIdle /\ ElIdle /\ SmIdle /\ NzIdle /\ JgIdle /\ SnIdle /\ KdIdle /\ DsIdle /\ HrIdle /\ NhInit /\ ImIdle /\ RsIdle
NextNoiseHistory ==
  \/ doOneStepNoise
  \/ doRemoveNoiseStep
  \/ doAutoplay
  \/ \E g \in GaussControls : SetGauss(g)
SpecNoiseHistory == InitNoiseHistory /\ [][NextNoiseHistory]_vars

InitImageNoise ==
  ShInit /\ CompIdle /\ SchIdle /\ ElIdle /\ SmIdle /\ NzIdle /\ JgIdle /\ SnIdle /\ KdIdle /\ DsIdle /\ HrIdle /\ NhIdle /\ ImInit /\ RsIdle
NextImageNoise ==
  \/ \E t \in DimTexts : setImgH(t)
  \/ \E t \in DimTexts : setImgW(t)
  \/ \E t \in ChannelTexts : setChannels(t)
  \/ \E uv \in UniformPairs : handleSampleClick(uv)
  \/ handleReshape
  \/ handleVisualize
SpecImageNoise == InitImageNoise /\ [][NextImageNoise]_vars

InitReshape ==
  ShInit /\ CompIdle /\ SchIdle /\ ElIdle /\ SmIdle /\ NzIdle /\ JgIdle /\ SnIdle /\ KdIdle /\ DsIdle /\ HrIdle /\ NhIdle /\ ImIdle /\ RsInit
NextReshape == RenderImage
SpecReshape == InitReshape /\ [][NextReshape]_vars

(***************************************************************************)
(* Claims                                                                  *)
(***************************************************************************)
\* C1: for every T >= 2 and each of the four shapes the builder returns
\* exactly T values, each in (0, 1], in non-increasing order.
C1_ScheduleShape ==
  schT >= 2 =>
    /\ Len(schOut) = schT
    /\ \A i \in 1..Len(schOut) : schOut[i] > 0 /\ schOut[i] <= SCALE
    /\ \A i \in 1..(Len(schOut) - 1) : schOut[i] >= schOut[i + 1]

\* a long sigmoid schedule that has decayed and is still positive
C1_Witness ==
  /\ schId = "sigmoid" /\ schT >= 30
  /\ Len(schOut) = schT
  /\ schOut[schT] > 0 /\ schOut[schT] < schOut[1]

\* C2: at every integer time position t in [0, T-1], t = T-1 with its k
\* clamped to T-2 included, the interpolated alpha-bar equals schedule[t]; at
\* t + 0.5 it lies strictly between schedule[t] and schedule[t+1] whenever
\* those differ.
C2_InterpolationAtGridPoints ==
  (view # "none" /\ rendered.tNum >= 0 /\ rendered.tNum <= (Len(alphaBar) - 1) * rendered.tDen) =>
    /\ (rendered.tNum % rendered.tDen = 0) =>
          rendered.abNum = At(alphaBar, rendered.tNum \div rendered.tDen) * rendered.tDen
    /\ ((2 * rendered.tNum) % rendered.tDen = 0 /\ rendered.tNum % rendered.tDen # 0
          /\ At(alphaBar, rendered.tNum \div rendered.tDen)
               # At(alphaBar, (rendered.tNum \div rendered.tDen) + 1)) =>
          /\ rendered.abNum < At(alphaBar, rendered.tNum \div rendered.tDen) * rendered.tDen
          /\ rendered.abNum > At(alphaBar, (rendered.tNum \div rendered.tDen) + 1) * rendered.tDen

\* the position T-1 with k clamped to T-2 and frac = 1
C2_Witness ==
  /\ view = "image" /\ steps >= 3
  /\ rendered.tNum = (steps - 1) * rendered.tDen
  /\ rendered.k = steps - 2 /\ rendered.fracNum = rendered.tDen
  /\ rendered.abNum = alphaBar[steps] * rendered.tDen

\* C3: in the image composition, showing the mirrored frame A-1-f of an active
\* frame f (same props, same image) renders the same time position, the same
\* alpha-bar and the same pixels.
C3_MirrorRetraces ==
  [][(/\ view = "image"
      /\ UNCHANGED <<steps, framesPerStep, scheduler, basePx>>
      /\ frame <= ActiveFrames(steps, framesPerStep) - 1
      /\ frame' = ActiveFrames(steps, framesPerStep) - 1 - frame)
     => (/\ rendered'.tNum = rendered.tNum
         /\ rendered'.abNum = rendered.abNum
         /\ rendered'.canvas = rendered.canvas)]_vars

\* a frame of the denoising half shown with the image loaded and noise mixed in
C3_Witness ==
  /\ view = "image" /\ basePx # <<>> /\ noise # <<>>
  /\ frame <= ActiveFrames(steps, framesPerStep) - 1
  /\ 2 * frame > ActiveFrames(steps, framesPerStep) - 1
  /\ rendered.tNum > 0
  /\ rendered.canvas # basePx

\* C4: in the image composition the time position is 0 at frame 0, rises
\* over the first half until some frame has t = T-1, then falls, and is 0 at
\* the last active frame and throughout the tail hold.
C4_TimeCoversRange ==
  (view = "image" /\ steps >= 2) =>
    /\ ImageTNum(steps, framesPerStep, 0) = 0
    /\ \E p \in 0..(ActiveFrames(steps, framesPerStep) - 1) :
         /\ ImageTNum(steps, framesPerStep, p) = (steps - 1) * TimeDen(steps, framesPerStep)
         /\ \A f \in 0..(ActiveFrames(steps, framesPerStep) - 2) :
              IF f < p
              THEN ImageTNum(steps, framesPerStep, f) <= ImageTNum(steps, framesPerStep, f + 1)
              ELSE ImageTNum(steps, framesPerStep, f) >= ImageTNum(steps, framesPerStep, f + 1)
    /\ \A f \in (ActiveFrames(steps, framesPerStep) - 1)..MaxFrame :
         ImageTNum(steps, framesPerStep, f) = 0

\* C5: whenever the inputs of the noise draw return to values they had
\* before, the regenerated buffer equals the one generated the first time for
\* those inputs.
C5_NoisePureInInputs ==
  nzView # "none" => eps = nzFirst[nzInputs]

\* C6: for every frame and every integer steps >= 0 the schedule built has
\* T = max(2, steps) >= 2 entries and the indices k and k+1 used for the
\* interpolation are within 0..T-1, in the three compositions.
C6_IndicesInBounds ==
  view # "none" =>
    /\ Len(alphaBar) = Max(2, steps)
    /\ Len(alphaBar) >= 2
    /\ rendered.k \in 0..(Len(alphaBar) - 1)
    /\ rendered.k + 1 \in 0..(Len(alphaBar) - 1)
    /\ rendered.abNum # NaN

\* the reverse view with steps = 0: the time position is negative, k is 0
C6_Witness ==
  /\ view = "reverse" /\ steps = 0
  /\ rendered.tNum < 0
  /\ rendered.k = 0 /\ Len(alphaBar) = 2

\* C7: after any change event the stored step count is an integer inside
\* the range of that Steps input.
C7_StoredStepsIntegerInRange ==
  elView # "none" =>
    /\ elSteps % UNIT = 0
    /\ elSteps >= StepsMin(elView) * UNIT
    /\ elSteps <= StepsMax(elView) * UNIT

\* 1e-4 in the units of the sample
Tolerance == (CENT * SCALE) \div 10000

\* C8: the sample equals x0 within 1e-4 when ab = 1 and equals eps within
\* 1e-4 when ab = 0, for pixels in [0, 1] and coordinates in [-5, 5].
C8_SampleEndpoints ==
  smView # "none" =>
    /\ smAb = SCALE => Abs(smOut - smX0 * SCALE) <= Tolerance
    /\ smAb = 0 => Abs(smOut - smEps * SCALE) <= Tolerance

\* C8 as it holds: the sample equals x0 when ab = 1, and when ab = 0 it is
\* eps + 1e-4 * x0, within 1e-4 * max(1, |x0|) of eps: within 1e-4 for pixels
\* in [0, 1], within 5e-4 for coordinates in [-5, 5].
C8_SampleEndpointsScaled ==
  smView # "none" =>
    /\ smAb = SCALE => smOut = smX0 * SCALE
    /\ smAb = 0 =>
         /\ smOut - smEps * SCALE = smX0
         /\ CENT * Abs(smOut - smEps * SCALE) <= Tolerance * Max(CENT, Abs(smX0))

\* a point-cloud coordinate of 5 at ab = 0: the sample is 5e-4 away from eps
C8_Witness ==
  /\ smView = "cloud" /\ smAb = 0 /\ smX0 = 5 * CENT
  /\ smOut - smEps * SCALE = 5 * Tolerance

\* C9: seededShuffle(n, seed) returns a sequence of length n*n in which each
\* of 0..n*n-1 appears exactly once, every generator output is a 32-bit word
\* (so r = x / 2^32 is in [0, 1)), and every swap index j is in 0..i.
C9_ShuffleIsPermutation ==
  shN > 0 =>
    /\ Len(shArr) = shN * shN
    /\ \A v \in 0..(shN * shN - 1) : Cardinality({p \in 1..Len(shArr) : shArr[p] = v}) = 1
    /\ Len(shJs) = shN * shN - 1
    /\ \A q \in 1..Len(shJs) :
         /\ shJs[q][3][1] \in 0..(W16 - 1) /\ shJs[q][3][2] \in 0..(W16 - 1)
         /\ shJs[q][1] = shN * shN - q
         /\ 0 <= shJs[q][2] /\ shJs[q][2] <= shJs[q][1]

\* a 3x3 shuffle whose loop swapped the last cell with an earlier one
C9_Witness ==
  /\ shN = 3 /\ Len(shArr) = 9
  /\ shJs[1][1] = 8 /\ shJs[1][2] < 8
  /\ shArr # identity(3)

\* C10: a call of seededShuffle with the arguments of an earlier call returns
\* the permutation that call returned, whatever calls were made in between.
C10_ShuffleDeterministic ==
  (shMemo # NoCall /\ shMemo.n = shN /\ shMemo.seed = shSeed) => shArr = shMemo.arr

\* the remembered call repeated after calls with other arguments
C10_Witness ==
  /\ shMemo # NoCall /\ shMemo.n = shN /\ shMemo.seed = shSeed
  /\ shBetween >= 2
  /\ shArr = shMemo.arr

\* C11: for every n with n * n > 1 and every seed, seededShuffle(n, seed) is
\* not the identity permutation.
C11_ShuffleNeverIdentity ==
  shN * shN > 1 => ~IsIdentity(shArr)

\* a call whose Fisher-Yates loop left every entry in place (each j = i), so
\* that only the final swap of the first two entries unsolves the board
C11_Witness ==
  /\ shN >= 2
  /\ \A q \in 1..Len(shJs) : shJs[q][1] = shJs[q][2]
  /\ shArr = Swap(identity(shN), 0, 1)

\* C12: once a grid-size change has been processed, whether it arrived idle or
\* during a transition, permFrom = permTo = perm, perm is
\* seededShuffle(grid, shuffleSeed) if the last action was a shuffle and the
\* identity otherwise, no tile tweens, animStartFrame is 0, isAnimating is
\* false, no pause timer is pending and the player is paused at frame 0.
C12_GridChangeResets ==
  jgOp.op = "grid" =>
    /\ permFrom = perm
    /\ permTo = perm
    /\ perm = IF lastAction = "shuffled" THEN seededShuffle(grid, shuffleSeed)
              ELSE identity(grid)
    /\ ~TweenShown(permFrom, permTo)
    /\ animStartFrame = 0
    /\ ~isAnimating
    /\ timers = {}
    /\ ~playing
    /\ playerFrame = 0

\* a grid change that arrived during a shuffle transition
C12_Witness ==
  /\ jgOp = [op |-> "grid", during |-> TRUE]
  /\ lastAction = "shuffled"
  /\ perm = seededShuffle(grid, shuffleSeed)

\* C16: while isAnimating is true, a Shuffle or Solve request changes none of
\* perm, permFrom, permTo, animStartFrame and lastAction and sets no new
\* pause timer.
C16_BusyRequestsIgnored ==
  [][(isAnimating /\ (onShuffle \/ onSolve)) =>
       UNCHANGED <<perm, permFrom, permTo, animStartFrame, lastAction, timers,
                   pauseTimerRef>>]_vars

\* a Shuffle or Solve request has just been made during a transition, which
\* is still running
C16_Witness ==
  /\ jgOp.op \in {"shuffle", "solve"}
  /\ jgOp.during
  /\ isAnimating
  /\ permFrom # permTo

\* C17: after any sequence of Shuffle, Solve and grid-change requests, also
\* ones made during a transition, whenever lastAction is "shuffled" perm is
\* seededShuffle(grid, shuffleSeed).
C17_ShuffledMatchesSeed ==
  lastAction = "shuffled" => perm = seededShuffle(grid, shuffleSeed)

\* C18: isAnimating is true exactly when a pause timer is pending, and at
\* most one timer is pending, under any interleaving of Shuffle, Solve, grid
\* change and timer expiry.
C18_OneTimerIffAnimating ==
  /\ isAnimating <=> timers # {}
  /\ Cardinality(timers) <= 1
  /\ timers = IF isAnimating THEN {pauseTimerRef} ELSE {}

\* a second transition runs with its one timer, after an earlier timer has
\* expired or been cleared
C18_Witness ==
  /\ isAnimating
  /\ timers = {pauseTimerRef}
  /\ jgBumps >= 2
  /\ jgOp = [op |-> "shuffle", during |-> FALSE]

\* C19: every accepted transition is eventually followed by a state with
\* isAnimating false and the player paused, given that pending timers
\* eventually fire.
C19_TransitionEnds ==
  isAnimating ~> (~isAnimating /\ ~playing)

\* an accepted transition is running
C19_Witness ==
  /\ isAnimating
  /\ playing
  /\ timers # {}
  /\ jgOp.op \in {"shuffle", "solve"}
  /\ ~jgOp.during

\* C15: when the scheduler prop is none of linear, cosine, quadratic and
\* sigmoid, the schedule in use is exactly the linear schedule for the same
\* step count, and the frame renders.
C15_UnknownSchedulerIsLinear ==
  (view = "image" /\ scheduler \notin Shapes) =>
    /\ alphaBar = makeAlphaBarLinear(Max(2, steps))
    /\ Len(alphaBar) = Max(2, steps)
    /\ rendered.abNum \in 0..(SCALE * rendered.tDen)

\* an unknown scheduler with a step count at which the four shapes differ
C15_Witness ==
  /\ view = "image"
  /\ scheduler = "other"
  /\ steps >= 3
  /\ alphaBar # makeAlphaBarCosine(steps)
  /\ rendered.k \in 1..(steps - 1)
  /\ rendered.abNum < SCALE * rendered.tDen

\* C13: every standard-normal sampler (the seeded randn helpers, the
\* data-simulation boxMuller, the image-noise Sample handler) guards u against
\* 0 by drawing again until it is non-zero: the u given to the logarithm is
\* the last draw made for it and is not 0.
C13_RedrawUntilNonZero ==
  \A q \in 1..Len(snSamples) :
    /\ snSamples[q].u # <<0, 0>>
    /\ snSamples[q].u = snDraws[snSamples[q].at]

\* C13, as the code has it: no sampler gives 0 to the logarithm and every
\* sample is finite; the randn helpers and boxMuller draw again while u is 0,
\* and the image-noise Sample handler makes one draw and replaces a 0 by 1e-9.
C13_LogArgumentNonZero ==
  \A q \in 1..Len(snSamples) :
    /\ snSamples[q].u # <<0, 0>>
    /\ snSamples[q].z # NaN
    /\ snKind \in {"randn", "boxMuller"} =>
         /\ snSamples[q].u = snDraws[snSamples[q].at]
         /\ \A j \in snSamples[q].first..(snSamples[q].at - 1) : snDraws[j] = <<0, 0>>
    /\ snKind = "handleSample" =>
         /\ snSamples[q].at = snSamples[q].first
         /\ snSamples[q].u = GuardTiny(snDraws[snSamples[q].at])

\* the Sample handler has drawn 0 for u and taken the logarithm of 1e-9
C13_Witness ==
  /\ snKind = "handleSample"
  /\ snDraws[1] = <<0, 0>>
  /\ snSamples[1].u = TINY
  /\ snSamples[1].z # NaN

\* C14: for every sample sequence with at most one sample (the empty sequence
\* included) or with zero variance, the kernel density estimate has the
\* length of the grid and every entry is a finite number.
C14_KdeFiniteOnDegenerate ==
  (kdWhich # "none"
     /\ (Len(kdSamples) <= 1 \/ \A i \in 1..Len(kdSamples) : kdSamples[i] = kdSamples[1])) =>
    /\ Len(kdYs) = Len(kdGrid)
    /\ \A j \in 1..Len(kdYs) : kdYs[j] # NaN

\* C20: in the data-simulation element, whenever the player is playing
\* because a Generate started it, a pause timer is pending, the one set by
\* the most recent Generate and due (animDuration + 2) / fps seconds after it;
\* no interleaving of Generate 1, Generate N, Reset and experiment or bins
\* changes leaves the player playing with no pause timer pending.
C20_PlayingHasPauseTimer ==
  dsPlaying =>
    /\ dsTimers # {}
    /\ dsPauseTimer = dsGen
    /\ dsTimers = {[id |-> dsGen, frames |-> DsAnimDuration + 2, fps |-> DsFps]}

\* counts.reduce((a, b) => a + b, 0)
RECURSIVE SumFrom(_, _)
SumFrom(arr, i) == IF i > Len(arr) THEN 0 ELSE arr[i] + SumFrom(arr, i + 1)
Sum(arr) == SumFrom(arr, 1)

\* the counts on show and their previous-state array, by experiment
DsShown == IF dsExp = "gaussian" THEN dsHist ELSE dsCounts
DsShownBefore == IF dsExp = "gaussian" THEN dsPrevHist ELSE dsPrevCounts

\* C21: in the data-simulation element Generate 1 raises the total count by
\* exactly 1 and Generate N by exactly N (batch clamped to [1, 100000]), in
\* discrete and Gaussian mode alike; every Gaussian sample, also one at or
\* outside [xMin, xMax], is counted in exactly one bin with index in
\* [0, B - 1]; prevCounts and prevHist hold the counts as they were just
\* before the action.
C21_GenerateCounts ==
  dsLast.op # "none" =>
    /\ Sum(DsShown) =
         Sum(dsLast.before)
           + (IF dsLast.op = "one" THEN 1
              ELSE Max(1, Min(100000, IF dsLast.asked = 0 THEN 1 ELSE dsLast.asked)))
    /\ DsShownBefore = dsLast.before
    /\ Len(DsShown) = Len(dsLast.before)
    /\ \A b \in 1..Len(DsShown) :
         DsShown[b] - dsLast.before[b] = Cardinality({i \in 1..Len(dsLast.ks) : dsLast.ks[i] = b - 1})
    /\ dsExp = "gaussian" =>
         \A i \in 1..Len(dsLast.xs) :
           /\ dsLast.ks[i] \in 0..(Len(dsHist) - 1)
           /\ dsLast.xs[i] <= XMIN => dsLast.ks[i] = 0
           /\ dsLast.xs[i] >= XMAX => dsLast.ks[i] = Len(dsHist) - 1
           /\ (dsLast.xs[i] > XMIN /\ dsLast.xs[i] < XMAX) =>
                /\ dsLast.xs[i] * Len(dsHist) >= EdgeTimes(dsLast.ks[i], Len(dsHist))
                /\ dsLast.xs[i] * Len(dsHist) < EdgeTimes(dsLast.ks[i] + 1, Len(dsHist))

\* a Generate N of two Gaussian samples, one below the range and one at its
\* upper end, on a histogram that already held a sample
C21_Witness ==
  /\ dsLast.op = "batch"
  /\ dsLast.asked = 2
  /\ dsExp = "gaussian"
  /\ dsLast.xs = <<-70000, XMAX>>
  /\ Sum(dsLast.before) = 1
  /\ Sum(dsHist) = 3

\* C22: after any sequence of Generate actions (or Shuffle / Solve actions)
\* with no reset in between, animStartFrame + animDuration does not exceed
\* the last frame 3599 of the player, so the tween started last can reach
\* progress 1.
C22_TweenHeadroom ==
  ~hrReset => hrAnimStartFrame + AnimDurationOf(hrElement) <= LastFrame

\* C23: in the cumulative noise mode the points shown are a function of the
\* base data and noiseHistory alone: 'Noise step' followed by 'Remove noise
\* step' restores the history and exactly the points shown before, renders
\* with the same history show the same points whatever the controls, and
\* 'Remove noise step' on an empty history leaves it empty.
C23_NoiseStepUndone ==
  /\ \A k \in 1..Len(nhTrail) :
       (noiseMode /\ nhTrail[k].noiseMode /\ nhTrail[k].noiseHistory = noiseHistory)
         => nhShown = nhTrail[k].shown
  /\ (/\ Len(nhTrail) = 2
      /\ nhTrail[1].op = "noise"
      /\ nhTrail[2].op = "remove")
       => /\ noiseHistory = nhTrail[1].noiseHistory
          /\ nhTrail[1].noiseMode => nhShown = nhTrail[1].shown
  /\ (/\ nhTrail # <<>>
      /\ nhTrail[Len(nhTrail)].op = "remove"
      /\ nhTrail[Len(nhTrail)].noiseHistory = <<>>)
       => noiseHistory = <<>>

\* a noise step with new control values on a history of one step was taken
\* back, and the points of that one step, moved off the base data, are shown
C23_Witness ==
  /\ Len(nhTrail) = 2
  /\ nhTrail[1].op = "noise"
  /\ nhTrail[2].op = "remove"
  /\ nhTrail[1].noiseMode
  /\ Len(noiseHistory) = 1
  /\ nhTrail[2].noiseHistory[2] # noiseHistory[1]
  /\ nhTrail[2].shown # nhShown
  /\ nhShown # nhBase

\* C24: in the image-noise element the mode is 'reshape' or 'visualize' only
\* when a sample exists (data non-empty and sampledShape set); Reshape and
\* Visualize before the first Sample leave mode 'empty' and change nothing;
\* once a Sample was taken the mode is never 'empty' again; and data.length
\* always equals h * w * c of the recorded sampledShape.
C24_SampleMatchesShape ==
  /\ mode \in {"reshape", "visualize"} => (Len(data) > 0 /\ sampledShape # NoShape)
  /\ (imLast.op \in {"reshape", "visualize"} /\ imLast.sampledShape = NoShape) =>
       /\ mode = "empty"
       /\ data = imLast.data
       /\ sampledShape = imLast.sampledShape
  /\ sampledShape # NoShape => mode # "empty"
  /\ sampledShape # NoShape =>
       Len(data) * DimUnit * DimUnit * DimUnit = sampledShape.h * sampledShape.w * sampledShape.c

\* C24 for samples of whole-number shapes: the four statements hold whenever
\* the recorded h, w and c are whole numbers.
C24_WholeShapes ==
  (/\ sampledShape.h % DimUnit = 0
   /\ sampledShape.w % DimUnit = 0
   /\ sampledShape.c % DimUnit = 0) => C24_SampleMatchesShape

\* the positions <<c, r, col>> of reshaped whose entry was read at flat index k
ReadAt(k) ==
  {pos \in (1..Len(rsIdx)) \X (1..Len(rsIdx[1])) \X (1..Len(rsIdx[1][1])) :
     rsIdx[pos[1]][pos[2]][pos[3]] = k * DimUnit * DimUnit}

\* the render computed flat and reshaped
RsComputed == rsRendered /\ rsMode # "empty" /\ Len(rsData) > 0

\* C25: for any data array, imgH and imgW >= 1 and channels clamped to 1..3
\* the flattened buffer has exactly imgH * imgW * ch entries, the data
\* truncated or padded with zeros, and reshaped is [ch][imgH][imgW] with
\* reshaped[c][r][col] = flat[(r * imgW + col) * ch + c], every index of flat
\* being read exactly once.
C25_ReshapeOneToOne ==
  RsComputed =>
    /\ Len(rsFlat) * DimUnit * DimUnit * DimUnit = rsH * rsW * ChOf(rsChannels)
    /\ \A i \in 1..Len(rsFlat) : rsFlat[i] = IF i <= Len(rsData) THEN rsData[i] ELSE 0
    /\ Len(rsReshaped) * DimUnit = ChOf(rsChannels)
    /\ \A c \in 1..Len(rsReshaped) :
         /\ Len(rsReshaped[c]) * DimUnit = rsH
         /\ \A r \in 1..Len(rsReshaped[c]) : Len(rsReshaped[c][r]) * DimUnit = rsW
    /\ \A k \in 0..(Len(rsFlat) - 1) :
         /\ Cardinality(ReadAt(k)) = 1
         /\ \A pos \in ReadAt(k) : rsReshaped[pos[1]][pos[2]][pos[3]] = rsFlat[k + 1]

\* C25 for whole-number props: the statement holds whenever imgH, imgW and
\* channels are whole numbers.
C25_WholeProps ==
  (rsH % DimUnit = 0 /\ rsW % DimUnit = 0 /\ rsChannels % DimUnit = 0) => C25_ReshapeOneToOne

====
